---- MODULE Spec2Model ----
(***************************************************************************)
(* Model of the incident-correlation and risk-scoring engine               *)
(* (src/services/ScoringEngine.ts) and of the request layer that calls it. *)
(*                                                                         *)
(* Representation choices                                                  *)
(*  - A JavaScript string is a sequence of one-character strings, so that  *)
(*    toLowerCase and includes are computed character by character.        *)
(*  - An instant is an integer number of milliseconds (Date.getTime()).    *)
(*  - A JavaScript number that is not an integer is a fraction num/den;    *)
(*    weights are kept in hundredths (0.3 is 30) and environment           *)
(*    multipliers in tenths (0.7 is 7), so a weighted, multiplied total is *)
(*    an integer number of thousandths.                                    *)
(*  - NaN stands for every value on which arithmetic yields NaN: NaN       *)
(*    itself and the non-numeric objects a table lookup can return.        *)
(***************************************************************************)
EXTENDS Integers, Sequences, FiniteSets, TLC

(***************************************************************************)
(* Strings                                                                 *)
(***************************************************************************)
S_deployment == <<"d", "e", "p", "l", "o", "y", "m", "e", "n", "t">>
S_migration == <<"m", "i", "g", "r", "a", "t", "i", "o", "n">>
S_config_change == <<"c", "o", "n", "f", "i", "g", "-", "c", "h", "a", "n", "g", "e">>
S_infrastructure == <<"i", "n", "f", "r", "a", "s", "t", "r", "u", "c", "t", "u", "r", "e">>
S_rollback == <<"r", "o", "l", "l", "b", "a", "c", "k">>
S_hotfix == <<"h", "o", "t", "f", "i", "x">>
S_feature_flag == <<"f", "e", "a", "t", "u", "r", "e", "-", "f", "l", "a", "g">>
S_scaling == <<"s", "c", "a", "l", "i", "n", "g">>
S_maintenance == <<"m", "a", "i", "n", "t", "e", "n", "a", "n", "c", "e">>
S_release == <<"r", "e", "l", "e", "a", "s", "e">>
S_constructor == <<"c", "o", "n", "s", "t", "r", "u", "c", "t", "o", "r">>
S_Migration == <<"M", "i", "g", "r", "a", "t", "i", "o", "n">>
S_Deployment == <<"D", "e", "p", "l", "o", "y", "m", "e", "n", "t">>
S_proto == <<"_", "_", "p", "r", "o", "t", "o", "_", "_">>
S_prod == <<"p", "r", "o", "d">>
S_production == <<"p", "r", "o", "d", "u", "c", "t", "i", "o", "n">>
S_staging == <<"s", "t", "a", "g", "i", "n", "g">>
S_dev == <<"d", "e", "v">>
S_development == <<"d", "e", "v", "e", "l", "o", "p", "m", "e", "n", "t">>
S_test == <<"t", "e", "s", "t">>
S_qa == <<"q", "a">>
S_Staging == <<"S", "t", "a", "g", "i", "n", "g">>
S_payment == <<"p", "a", "y", "m", "e", "n", "t">>
S_billing == <<"b", "i", "l", "l", "i", "n", "g">>
S_auth == <<"a", "u", "t", "h">>
S_login == <<"l", "o", "g", "i", "n">>
S_database == <<"d", "a", "t", "a", "b", "a", "s", "e">>
S_db == <<"d", "b">>
S_api == <<"a", "p", "i">>
S_gateway == <<"g", "a", "t", "e", "w", "a", "y">>
S_web == <<"w", "e", "b">>
S_frontend == <<"f", "r", "o", "n", "t", "e", "n", "d">>
S_payment_api == <<"p", "a", "y", "m", "e", "n", "t", "-", "a", "p", "i">>
S_Auth == <<"A", "u", "t", "h">>
S_orders == <<"o", "r", "d", "e", "r", "s">>
S_checkout == <<"c", "h", "e", "c", "k", "o", "u", "t">>
S_search == <<"s", "e", "a", "r", "c", "h">>

\* The lower-case letter of every upper-case letter.
LowerOf ==
    ("A" :> "a") @@ ("B" :> "b") @@ ("C" :> "c") @@ ("D" :> "d") @@ ("E" :> "e") @@
    ("F" :> "f") @@ ("G" :> "g") @@ ("H" :> "h") @@ ("I" :> "i") @@ ("J" :> "j") @@
    ("K" :> "k") @@ ("L" :> "l") @@ ("M" :> "m") @@ ("N" :> "n") @@ ("O" :> "o") @@
    ("P" :> "p") @@ ("Q" :> "q") @@ ("R" :> "r") @@ ("S" :> "s") @@ ("T" :> "t") @@
    ("U" :> "u") @@ ("V" :> "v") @@ ("W" :> "w") @@ ("X" :> "x") @@ ("Y" :> "y") @@
    ("Z" :> "z")

\* String.prototype.toLowerCase: every upper-case letter is replaced by its
\* lower-case letter, every other character is kept.
toLowerCase(s) ==
    [i \in 1..Len(s) |-> IF s[i] \in DOMAIN LowerOf THEN LowerOf[s[i]] ELSE s[i]]

\* String.prototype.includes: p occurs in s as a contiguous substring.
includes(s, p) ==
    \E i \in 0..(Len(s) - Len(p)) : SubSeq(s, i + 1, i + Len(p)) = p

(***************************************************************************)
(* Numbers                                                                 *)
(***************************************************************************)
\* The value on which arithmetic yields NaN.
NaN == 0 - 1000000

Plus(a, b) == IF a = NaN \/ b = NaN THEN NaN ELSE a + b
Times(a, b) == IF a = NaN \/ b = NaN THEN NaN ELSE a * b

\* Math.min and Math.max: NaN as soon as an operand is NaN.
MathMin(a, b) == IF a = NaN \/ b = NaN THEN NaN ELSE IF a < b THEN a ELSE b
MathMax(a, b) == IF a = NaN \/ b = NaN THEN NaN ELSE IF a > b THEN a ELSE b

\* Math.trunc in the place of Math.round.
MathRound_truncating(num, den) == IF num = NaN THEN NaN ELSE num \div den

\* Math.round on the fraction num/den: the nearest integer, halves upwards.
MathRound(num, den) ==
    IF num = NaN THEN NaN ELSE (2 * num + den) \div (2 * den)

\* a >= b on numbers: false as soon as an operand is NaN.
Geq(a, b) == a # NaN /\ b # NaN /\ a >= b

\* Property names every object literal inherits from Object.prototype; a
\* lookup table written as an object literal answers them with a function
\* or an object, never with undefined.
ObjectPrototypeKeys == {S_constructor, S_proto}

\* table[key] || dflt
LookupOr(table, key, dflt) ==
    IF key \in DOMAIN table
    THEN (IF table[key] = 0 THEN dflt ELSE table[key])
    ELSE IF key \in ObjectPrototypeKeys THEN NaN ELSE dflt

(***************************************************************************)
(* Static tables of ScoringEngine                                          *)
(***************************************************************************)
\* Weights in hundredths.
SCORE_WEIGHTS ==
    [TIMING_PROXIMITY |-> 30,
     EVENT_TYPE_RISK |-> 25,
     SERVICE_CRITICALITY |-> 20,
     CHANGE_FREQUENCY |-> 15,
     BLAST_RADIUS |-> 10]

EVENT_TYPE_SCORES ==
    (S_deployment :> 70) @@ (S_migration :> 85) @@ (S_config_change :> 60) @@
    (S_infrastructure :> 75) @@ (S_rollback :> 40) @@ (S_hotfix :> 80) @@
    (S_feature_flag :> 50) @@ (S_scaling :> 45) @@ (S_maintenance :> 30)

\* Multipliers in tenths.
ENVIRONMENT_MULTIPLIERS ==
    (S_prod :> 10) @@ (S_production :> 10) @@ (S_staging :> 7) @@
    (S_dev :> 3) @@ (S_development :> 3) @@ (S_test :> 2)

MsPerMinute == 60000

(***************************************************************************)
(* Factor calculators                                                      *)
(***************************************************************************)
\* calculateTimingProximity with the five-minute boundary exclusive.
calculateTimingProximity_exclusive(event, context) ==
    LET timeDiff == context.incidentAt - event.occurred_at
        score ==
            IF timeDiff < 0 THEN 0
            ELSE IF timeDiff < 5 * MsPerMinute THEN 100
            ELSE IF timeDiff <= 15 * MsPerMinute THEN 85
            ELSE IF timeDiff <= 30 * MsPerMinute THEN 70
            ELSE IF timeDiff <= 60 * MsPerMinute THEN 50
            ELSE IF timeDiff <= 120 * MsPerMinute THEN 30
            ELSE 10
    IN  [name |-> "Timing Proximity", score |-> score,
         weight |-> SCORE_WEIGHTS.TIMING_PROXIMITY, description |-> ""]

\* calculateTimingProximity with the scores of its last two buckets exchanged.
calculateTimingProximity_exchanged(event, context) ==
    LET timeDiff == context.incidentAt - event.occurred_at
        score ==
            IF timeDiff < 0 THEN 0
            ELSE IF timeDiff <= 5 * MsPerMinute THEN 100
            ELSE IF timeDiff <= 15 * MsPerMinute THEN 85
            ELSE IF timeDiff <= 30 * MsPerMinute THEN 70
            ELSE IF timeDiff <= 60 * MsPerMinute THEN 50
            ELSE IF timeDiff <= 120 * MsPerMinute THEN 10
            ELSE 30
    IN  [name |-> "Timing Proximity", score |-> score,
         weight |-> SCORE_WEIGHTS.TIMING_PROXIMITY, description |-> ""]

calculateTimingProximity(event, context) ==
    LET timeDiff == context.incidentAt - event.occurred_at
        \* minutesDiff = timeDiff / MsPerMinute; each comparison below is
        \* the comparison of minutesDiff, multiplied out.
        bucket ==
            IF timeDiff < 0 THEN
                [score |-> 0, description |-> "Event occurred after incident"]
            ELSE IF timeDiff <= 5 * MsPerMinute THEN
                [score |-> 100,
                 description |-> "Extremely close timing - very high correlation risk"]
            ELSE IF timeDiff <= 15 * MsPerMinute THEN
                [score |-> 85,
                 description |-> "Very close timing - high correlation risk"]
            ELSE IF timeDiff <= 30 * MsPerMinute THEN
                [score |-> 70,
                 description |-> "Close timing - moderate correlation risk"]
            ELSE IF timeDiff <= 60 * MsPerMinute THEN
                [score |-> 50,
                 description |-> "Recent timing - some correlation risk"]
            ELSE IF timeDiff <= 120 * MsPerMinute THEN
                [score |-> 30,
                 description |-> "Moderately recent - low correlation risk"]
            ELSE
                [score |-> 10,
                 description |-> "Distant timing - minimal correlation risk"]
    IN  [name |-> "Timing Proximity",
         score |-> bucket.score,
         weight |-> SCORE_WEIGHTS.TIMING_PROXIMITY,
         description |-> bucket.description]

\* calculateEventTypeRisk that looks the type up as it is written.
calculateEventTypeRisk_exact(event) ==
    LET key == event.type
        baseScore == LookupOr(EVENT_TYPE_SCORES, key, 50)
        description ==
            IF key = S_deployment THEN
                "Code deployments can introduce bugs or breaking changes"
            ELSE IF key = S_migration THEN
                "Database migrations are high-risk operations"
            ELSE IF key = S_hotfix THEN
                "Hotfixes are rushed changes with higher error probability"
            ELSE IF key = S_infrastructure THEN
                "Infrastructure changes can affect system stability"
            ELSE IF key = S_rollback THEN
                "Rollbacks indicate previous issues and can cause new problems"
            ELSE "changes carry moderate risk"
    IN  [name |-> "Event Type Risk",
         score |-> baseScore,
         weight |-> SCORE_WEIGHTS.EVENT_TYPE_RISK,
         description |-> description]

calculateEventTypeRisk(event) ==
    LET key == toLowerCase(event.type)
        baseScore == LookupOr(EVENT_TYPE_SCORES, key, 50)
        description ==
            IF key = S_deployment THEN
                "Code deployments can introduce bugs or breaking changes"
            ELSE IF key = S_migration THEN
                "Database migrations are high-risk operations"
            ELSE IF key = S_hotfix THEN
                "Hotfixes are rushed changes with higher error probability"
            ELSE IF key = S_infrastructure THEN
                "Infrastructure changes can affect system stability"
            ELSE IF key = S_rollback THEN
                "Rollbacks indicate previous issues and can cause new problems"
            ELSE "changes carry moderate risk"
    IN  [name |-> "Event Type Risk",
         score |-> baseScore,
         weight |-> SCORE_WEIGHTS.EVENT_TYPE_RISK,
         description |-> description]

\* calculateServiceCriticality with the name patterns tried before the
\* comparison with the incident's service.
calculateServiceCriticality_patternsFirst(event, context) ==
    LET serviceName == toLowerCase(event.service)
        score ==
            IF includes(serviceName, S_api) \/ includes(serviceName, S_gateway) THEN 80
            ELSE IF includes(serviceName, S_auth) \/ includes(serviceName, S_login) THEN 85
            ELSE IF includes(serviceName, S_payment) \/ includes(serviceName, S_billing) THEN 90
            ELSE IF includes(serviceName, S_database) \/ includes(serviceName, S_db) THEN 85
            ELSE IF includes(serviceName, S_web) \/ includes(serviceName, S_frontend) THEN 60
            ELSE IF context.service # <<>> /\ event.service = context.service THEN 90
            ELSE 50
    IN  [name |-> "Service Criticality", score |-> score,
         weight |-> SCORE_WEIGHTS.SERVICE_CRITICALITY, description |-> ""]

calculateServiceCriticality(event, context) ==
    LET serviceName == toLowerCase(event.service)
        bucket ==
            IF context.service # <<>> /\ event.service = context.service THEN
                [score |-> 90,
                 description |-> "Change to the same service experiencing the incident"]
            ELSE IF includes(serviceName, S_api) \/ includes(serviceName, S_gateway) THEN
                [score |-> 80, description |-> "Change to critical API service"]
            ELSE IF includes(serviceName, S_auth) \/ includes(serviceName, S_login) THEN
                [score |-> 85, description |-> "Change to authentication service"]
            ELSE IF includes(serviceName, S_payment) \/ includes(serviceName, S_billing) THEN
                [score |-> 90, description |-> "Change to payment/billing service"]
            ELSE IF includes(serviceName, S_database) \/ includes(serviceName, S_db) THEN
                [score |-> 85, description |-> "Change to database service"]
            ELSE IF includes(serviceName, S_web) \/ includes(serviceName, S_frontend) THEN
                [score |-> 60, description |-> "Change to web/frontend service"]
            ELSE
                [score |-> 50, description |-> "Change to standard service"]
    IN  [name |-> "Service Criticality",
         score |-> bucket.score,
         weight |-> SCORE_WEIGHTS.SERVICE_CRITICALITY,
         description |-> bucket.description]

\* calculateChangeFrequency that counts only the events the list holds up to
\* the event itself.
calculateChangeFrequency_preceding(event, allEvents, context) ==
    LET oneDayAgo == context.incidentAt - 24 * 60 * MsPerMinute
        recentChanges ==
            {i \in DOMAIN allEvents :
                /\ \A j \in DOMAIN allEvents : allEvents[j] = event => i <= j
                /\ allEvents[i].service = event.service
                /\ allEvents[i].occurred_at >= oneDayAgo
                /\ allEvents[i].occurred_at <= context.incidentAt}
        length == Cardinality(recentChanges)
        bucket ==
            IF length <= 1 THEN
                [score |-> 30, description |-> "Infrequent changes - unusual activity"]
            ELSE IF length <= 3 THEN
                [score |-> 20, description |-> "Normal change frequency"]
            ELSE IF length <= 6 THEN
                [score |-> 40, description |-> "High change frequency - increased risk"]
            ELSE
                [score |-> 70,
                 description |-> "Very high change frequency - significant risk"]
    IN  [name |-> "Change Frequency",
         score |-> bucket.score,
         weight |-> SCORE_WEIGHTS.CHANGE_FREQUENCY,
         description |-> bucket.description]

\* calculateChangeFrequency with the 24 hour boundary excluded.
calculateChangeFrequency_exclusive(event, allEvents, context) ==
    LET oneDayAgo == context.incidentAt - 24 * 60 * MsPerMinute
        recentChanges ==
            {i \in DOMAIN allEvents :
                /\ allEvents[i].service = event.service
                /\ allEvents[i].occurred_at > oneDayAgo
                /\ allEvents[i].occurred_at <= context.incidentAt}
        length == Cardinality(recentChanges)
        bucket ==
            IF length <= 1 THEN
                [score |-> 30, description |-> "Infrequent changes - unusual activity"]
            ELSE IF length <= 3 THEN
                [score |-> 20, description |-> "Normal change frequency"]
            ELSE IF length <= 6 THEN
                [score |-> 40, description |-> "High change frequency - increased risk"]
            ELSE
                [score |-> 70,
                 description |-> "Very high change frequency - significant risk"]
    IN  [name |-> "Change Frequency",
         score |-> bucket.score,
         weight |-> SCORE_WEIGHTS.CHANGE_FREQUENCY,
         description |-> bucket.description]

calculateChangeFrequency(event, allEvents, context) ==
    LET oneDayAgo == context.incidentAt - 24 * 60 * MsPerMinute
        recentChanges ==
            {i \in DOMAIN allEvents :
                /\ allEvents[i].service = event.service
                /\ allEvents[i].occurred_at >= oneDayAgo
                /\ allEvents[i].occurred_at <= context.incidentAt}
        length == Cardinality(recentChanges)
        bucket ==
            IF length <= 1 THEN
                [score |-> 30, description |-> "Infrequent changes - unusual activity"]
            ELSE IF length <= 3 THEN
                [score |-> 20, description |-> "Normal change frequency"]
            ELSE IF length <= 6 THEN
                [score |-> 40, description |-> "High change frequency - increased risk"]
            ELSE
                [score |-> 70,
                 description |-> "Very high change frequency - significant risk"]
    IN  [name |-> "Change Frequency",
         score |-> bucket.score,
         weight |-> SCORE_WEIGHTS.CHANGE_FREQUENCY,
         description |-> bucket.description]

Abs(x) == IF x < 0 THEN 0 - x ELSE x

\* calculateBlastRadius with the ten minute boundary excluded.
calculateBlastRadius_exclusive(event, allEvents) ==
    LET timeWindow == 10 * MsPerMinute
        simultaneousChanges ==
            {i \in DOMAIN allEvents :
                /\ Abs(allEvents[i].occurred_at - event.occurred_at) < timeWindow
                /\ allEvents[i].id # event.id}
        affectedServices ==
            {allEvents[i].service : i \in simultaneousChanges} \cup {event.service}
        size == Cardinality(affectedServices)
        bucket ==
            IF size = 1 THEN
                [score |-> 20, description |-> "Single service affected"]
            ELSE IF size <= 3 THEN
                [score |-> 50, description |-> "Multiple services affected"]
            ELSE
                [score |-> 80,
                 description |-> "Wide-reaching changes across many services"]
        score ==
            bucket.score
            + (IF event.meta.affects_all_users THEN 20 ELSE 0)
            + (IF event.meta.breaking_change THEN 25 ELSE 0)
            + (IF event.meta.database_migration THEN 15 ELSE 0)
    IN  [name |-> "Blast Radius",
         score |-> MathMin(score, 100),
         weight |-> SCORE_WEIGHTS.BLAST_RADIUS,
         description |-> bucket.description]

calculateBlastRadius(event, allEvents) ==
    LET timeWindow == 10 * MsPerMinute
        simultaneousChanges ==
            {i \in DOMAIN allEvents :
                /\ Abs(allEvents[i].occurred_at - event.occurred_at) <= timeWindow
                /\ allEvents[i].id # event.id}
        affectedServices ==
            {allEvents[i].service : i \in simultaneousChanges} \cup {event.service}
        size == Cardinality(affectedServices)
        bucket ==
            IF size = 1 THEN
                [score |-> 20, description |-> "Single service affected"]
            ELSE IF size <= 3 THEN
                [score |-> 50, description |-> "Multiple services affected"]
            ELSE
                [score |-> 80,
                 description |-> "Wide-reaching changes across many services"]
        score ==
            bucket.score
            + (IF event.meta.affects_all_users THEN 20 ELSE 0)
            + (IF event.meta.breaking_change THEN 25 ELSE 0)
            + (IF event.meta.database_migration THEN 15 ELSE 0)
    IN  [name |-> "Blast Radius",
         score |-> MathMin(score, 100),
         weight |-> SCORE_WEIGHTS.BLAST_RADIUS,
         description |-> bucket.description]

(***************************************************************************)
(* Event scorer                                                            *)
(***************************************************************************)
\* getScoreLevel applied to the fraction num/den.
getScoreLevel(num, den) ==
    IF Geq(num, 80 * den) THEN "critical"
    ELSE IF Geq(num, 60 * den) THEN "high"
    ELSE IF Geq(num, 40 * den) THEN "medium"
    ELSE "low"

\* factor.score * factor.weight, in hundredths.
WeightedScore(factor) == Times(factor.score, factor.weight)

\* One line of a recommendation list: the fixed text and the values
\* interpolated into it.
Recommendation(text, args) == [text |-> text, args |-> args]

\* generateExplanation whose reduce replaces the maximum on a tie.
generateExplanation_lastMax(event, context, factors, num, den) ==
    LET level == getScoreLevel(num, den)
        RECURSIVE reduce(_, _)
        reduce(max, i) ==
            IF i > Len(factors) THEN max
            ELSE IF WeightedScore(factors[i]) # NaN /\ WeightedScore(max) # NaN
                    /\ WeightedScore(factors[i]) >= WeightedScore(max)
                 THEN reduce(factors[i], i + 1)
                 ELSE reduce(max, i + 1)
        topFactor == reduce(factors[1], 2)
    IN  [type |-> event.type,
         service |-> event.service,
         level |-> level,
         score |-> MathRound(num, den),
         topFactor |-> topFactor.name,
         topFactorDescription |-> topFactor.description,
         closing |->
            IF level = "critical" \/ level = "high" THEN
                "This change should be investigated as a potential root cause of the incident."
            ELSE IF level = "medium" THEN
                "This change may have contributed to the incident and should be reviewed."
            ELSE
                "This change is unlikely to be the primary cause but may be a contributing factor."]

\* generateRecommendations that also gives a medium event the general items.
generateRecommendations_medium(event, context, factors, num, den) ==
    LET level == getScoreLevel(num, den)
        general ==
            IF level = "critical" \/ level = "high" \/ level = "medium" THEN
                <<Recommendation("Immediately investigate this change as a primary suspect", <<>>),
                  Recommendation("Check if rollback is possible and safe", <<>>),
                  Recommendation("Review change approval and testing processes", <<>>)>>
            ELSE <<>>
        forFactor(factor) ==
            (IF factor.name = "Timing Proximity" /\ Geq(factor.score, 80) THEN
                <<Recommendation("Verify exact timing correlation with incident onset", <<>>)>>
             ELSE <<>>)
            \o
            (IF factor.name = "Event Type Risk" /\ event.type = S_migration THEN
                <<Recommendation("Check database performance and integrity", <<>>),
                  Recommendation("Review migration logs for errors", <<>>)>>
             ELSE <<>>)
            \o
            (IF factor.name = "Change Frequency" /\ Geq(factor.score, 60) THEN
                <<Recommendation("Implement change freezes during high-frequency periods", <<>>)>>
             ELSE <<>>)
        RECURSIVE forEach(_)
        forEach(i) ==
            IF i > Len(factors) THEN <<>> ELSE forFactor(factors[i]) \o forEach(i + 1)
        author ==
            IF event.meta.author # "" THEN
                <<Recommendation("Contact change author: ", <<event.meta.author>>)>>
            ELSE <<>>
    IN  general \o forEach(1) \o author

generateExplanation(event, context, factors, num, den) ==
    LET level == getScoreLevel(num, den)
        RECURSIVE reduce(_, _)
        reduce(max, i) ==
            IF i > Len(factors) THEN max
            ELSE IF WeightedScore(factors[i]) # NaN /\ WeightedScore(max) # NaN
                    /\ WeightedScore(factors[i]) > WeightedScore(max)
                 THEN reduce(factors[i], i + 1)
                 ELSE reduce(max, i + 1)
        topFactor == reduce(factors[1], 2)
    IN  [type |-> event.type,
         service |-> event.service,
         level |-> level,
         score |-> MathRound(num, den),
         topFactor |-> topFactor.name,
         topFactorDescription |-> topFactor.description,
         closing |->
            IF level = "critical" \/ level = "high" THEN
                "This change should be investigated as a potential root cause of the incident."
            ELSE IF level = "medium" THEN
                "This change may have contributed to the incident and should be reviewed."
            ELSE
                "This change is unlikely to be the primary cause but may be a contributing factor."]

generateRecommendations(event, context, factors, num, den) ==
    LET level == getScoreLevel(num, den)
        general ==
            IF level = "critical" \/ level = "high" THEN
                <<Recommendation("Immediately investigate this change as a primary suspect", <<>>),
                  Recommendation("Check if rollback is possible and safe", <<>>),
                  Recommendation("Review change approval and testing processes", <<>>)>>
            ELSE <<>>
        forFactor(factor) ==
            (IF factor.name = "Timing Proximity" /\ Geq(factor.score, 80) THEN
                <<Recommendation("Verify exact timing correlation with incident onset", <<>>)>>
             ELSE <<>>)
            \o
            (IF factor.name = "Event Type Risk" /\ event.type = S_migration THEN
                <<Recommendation("Check database performance and integrity", <<>>),
                  Recommendation("Review migration logs for errors", <<>>)>>
             ELSE <<>>)
            \o
            (IF factor.name = "Change Frequency" /\ Geq(factor.score, 60) THEN
                <<Recommendation("Implement change freezes during high-frequency periods", <<>>)>>
             ELSE <<>>)
        RECURSIVE forEach(_)
        forEach(i) ==
            IF i > Len(factors) THEN <<>> ELSE forFactor(factors[i]) \o forEach(i + 1)
        author ==
            IF event.meta.author # "" THEN
                <<Recommendation("Contact change author: ", <<event.meta.author>>)>>
            ELSE <<>>
    IN  general \o forEach(1) \o author

\* totalScore *= envMultiplier, with totalScore in hundredths and the
\* multiplier in tenths: the product in thousandths.  The product is the
\* exact one except where IEEE-754 double arithmetic rounds it below the exact
\* value across a half: 45 * 0.7 evaluates to 31.499999999999996 and
\* 85 * 0.7 to 59.49999999999999.
MultiplyByEnvironment(totalScore, envMultiplier) ==
    IF totalScore = NaN \/ envMultiplier = NaN THEN NaN
    ELSE IF envMultiplier = 7 /\ totalScore \in {4500, 8500}
         THEN totalScore * envMultiplier - 1
         ELSE totalScore * envMultiplier

\* The five factors of an event, in the order they are pushed.
eventFactors(event, context, allEvents) ==
    <<calculateTimingProximity(event, context),
      calculateEventTypeRisk(event),
      calculateServiceCriticality(event, context),
      calculateChangeFrequency(event, allEvents, context),
      calculateBlastRadius(event, allEvents)>>

\* finalScore of scoreChangeEvent, in thousandths.
eventFinalScore(event, factors) ==
    LET totalScore ==
            Plus(Plus(Plus(Plus(WeightedScore(factors[1]), WeightedScore(factors[2])),
                           WeightedScore(factors[3])),
                      WeightedScore(factors[4])),
                 WeightedScore(factors[5]))
        envMultiplier ==
            LookupOr(ENVIRONMENT_MULTIPLIERS, toLowerCase(event.environment), 5)
    IN  MathMin(MathMax(MultiplyByEnvironment(totalScore, envMultiplier), 0), 100 * 1000)

scoreChangeEvent(event, context, allEvents) ==
    LET factors == eventFactors(event, context, allEvents)
        finalScore == eventFinalScore(event, factors)
    IN  [score |-> MathRound(finalScore, 1000),
         level |-> getScoreLevel(finalScore, 1000),
         explanation |-> generateExplanation(event, context, factors, finalScore, 1000),
         factors |-> factors,
         recommendations |->
            generateRecommendations(event, context, factors, finalScore, 1000)]

(***************************************************************************)
(* Correlation detector                                                    *)
(***************************************************************************)
\* findEventCorrelations with a deployment chain from three deployments on.
findEventCorrelations_threeDeployments(events, context) ==
    LET deployments == SelectSeq(events, LAMBDA e : e.type = S_deployment)
        migrations == SelectSeq(events, LAMBDA e : e.type = S_migration)
        services == {events[i].service : i \in DOMAIN events}
        chain ==
            IF Len(deployments) > 2 THEN
                <<[events |-> deployments,
                   description |-> "Multiple deployments in sequence can compound issues",
                   riskIncrease |-> Len(deployments) * 10]>>
            ELSE <<>>
        combination ==
            IF Len(migrations) > 0 /\ Len(deployments) > 0 THEN
                <<[events |-> migrations \o deployments,
                   description |->
                       "Database migrations combined with deployments are high-risk",
                   riskIncrease |-> 25]>>
            ELSE <<>>
        crossService ==
            IF Cardinality(services) >= 3 THEN
                <<[events |-> events,
                   description |->
                       "Changes across multiple services increase system complexity",
                   riskIncrease |-> Cardinality(services) * 5]>>
            ELSE <<>>
    IN  chain \o combination \o crossService

\* findEventCorrelations without the combination when the chain covers the
\* deployments already.
findEventCorrelations_deduplicated(events, context) ==
    LET deployments == SelectSeq(events, LAMBDA e : e.type = S_deployment)
        migrations == SelectSeq(events, LAMBDA e : e.type = S_migration)
        services == {events[i].service : i \in DOMAIN events}
        chain ==
            IF Len(deployments) >= 2 THEN
                <<[events |-> deployments,
                   description |-> "Multiple deployments in sequence can compound issues",
                   riskIncrease |-> Len(deployments) * 10]>>
            ELSE <<>>
        combination ==
            IF Len(migrations) > 0 /\ Len(deployments) = 1 THEN
                <<[events |-> migrations \o deployments,
                   description |->
                       "Database migrations combined with deployments are high-risk",
                   riskIncrease |-> 25]>>
            ELSE <<>>
        crossService ==
            IF Cardinality(services) >= 3 THEN
                <<[events |-> events,
                   description |->
                       "Changes across multiple services increase system complexity",
                   riskIncrease |-> Cardinality(services) * 5]>>
            ELSE <<>>
    IN  chain \o combination \o crossService

\* findEventCorrelations with the cross-service risk counted per event.
findEventCorrelations_perEvent(events, context) ==
    LET deployments == SelectSeq(events, LAMBDA e : e.type = S_deployment)
        migrations == SelectSeq(events, LAMBDA e : e.type = S_migration)
        services == {events[i].service : i \in DOMAIN events}
        chain ==
            IF Len(deployments) >= 2 THEN
                <<[events |-> deployments,
                   description |-> "Multiple deployments in sequence can compound issues",
                   riskIncrease |-> Len(deployments) * 10]>>
            ELSE <<>>
        combination ==
            IF Len(migrations) > 0 /\ Len(deployments) > 0 THEN
                <<[events |-> migrations \o deployments,
                   description |->
                       "Database migrations combined with deployments are high-risk",
                   riskIncrease |-> 25]>>
            ELSE <<>>
        crossService ==
            IF Cardinality(services) >= 3 THEN
                <<[events |-> events,
                   description |->
                       "Changes across multiple services increase system complexity",
                   riskIncrease |-> Len(events) * 5]>>
            ELSE <<>>
    IN  chain \o combination \o crossService

\* findEventCorrelations with a deployment chain only for two deployments
\* next to each other in the list.
findEventCorrelations_adjacent(events, context) ==
    LET deployments == SelectSeq(events, LAMBDA e : e.type = S_deployment)
        migrations == SelectSeq(events, LAMBDA e : e.type = S_migration)
        services == {events[i].service : i \in DOMAIN events}
        chain ==
            IF \E k \in 1..(Len(events) - 1) :
                  events[k].type = S_deployment /\ events[k + 1].type = S_deployment THEN
                <<[events |-> deployments,
                   description |-> "Multiple deployments in sequence can compound issues",
                   riskIncrease |-> Len(deployments) * 10]>>
            ELSE <<>>
        combination ==
            IF Len(migrations) > 0 /\ Len(deployments) > 0 THEN
                <<[events |-> migrations \o deployments,
                   description |->
                       "Database migrations combined with deployments are high-risk",
                   riskIncrease |-> 25]>>
            ELSE <<>>
        crossService ==
            IF Cardinality(services) >= 3 THEN
                <<[events |-> events,
                   description |->
                       "Changes across multiple services increase system complexity",
                   riskIncrease |-> Cardinality(services) * 5]>>
            ELSE <<>>
    IN  chain \o combination \o crossService

findEventCorrelations(events, context) ==
    LET deployments == SelectSeq(events, LAMBDA e : e.type = S_deployment)
        migrations == SelectSeq(events, LAMBDA e : e.type = S_migration)
        services == {events[i].service : i \in DOMAIN events}
        chain ==
            IF Len(deployments) >= 2 THEN
                <<[events |-> deployments,
                   description |-> "Multiple deployments in sequence can compound issues",
                   riskIncrease |-> Len(deployments) * 10]>>
            ELSE <<>>
        combination ==
            IF Len(migrations) > 0 /\ Len(deployments) > 0 THEN
                <<[events |-> migrations \o deployments,
                   description |->
                       "Database migrations combined with deployments are high-risk",
                   riskIncrease |-> 25]>>
            ELSE <<>>
        crossService ==
            IF Cardinality(services) >= 3 THEN
                <<[events |-> events,
                   description |->
                       "Changes across multiple services increase system complexity",
                   riskIncrease |-> Cardinality(services) * 5]>>
            ELSE <<>>
    IN  chain \o combination \o crossService

(***************************************************************************)
(* Array.prototype.sort                                                    *)
(***************************************************************************)
\* The arrays seq can become when it is sorted in place with the comparator
\* (a, b) => key(b) - key(a), key[i] being the key of seq[i].  A comparator
\* result of NaN counts as 0.  With
\* numeric keys the sort is the stable descending one.  With NaN keys the
\* comparator is consistent only when all numeric keys are equal (everything
\* then compares equal and the order is kept); otherwise the order is
\* implementation-defined and every permutation is a possible outcome.
SortOutcomes(seq, key) ==
    LET n == Len(seq)
        \* The position of seq[i] in the stable descending order.
        rank ==
            [i \in 1..n |->
                Cardinality({j \in 1..n :
                    key[j] > key[i] \/ (key[j] = key[i] /\ j < i)}) + 1]
    IN  IF \A i \in 1..n : key[i] # NaN THEN
            {[k \in 1..n |-> seq[CHOOSE i \in 1..n : r[i] = k]] : r \in {rank}}
        ELSE IF \A i, j \in 1..n : key[i] # NaN /\ key[j] # NaN => key[i] = key[j]
        THEN {seq}
        ELSE {[k \in 1..n |-> seq[p[k]]] : p \in Permutations(1..n)}

\* Array.prototype.slice(0, count)
Slice(seq, count) == SubSeq(seq, 1, IF Len(seq) < count THEN Len(seq) ELSE count)

(***************************************************************************)
(* Aggregate assessor                                                      *)
(***************************************************************************)
RECURSIVE Sum(_)
\* reduce((sum, x) => sum + x, 0) over a list of numbers
Sum(numbers) ==
    IF numbers = <<>> THEN 0 ELSE Plus(Head(numbers), Sum(Tail(numbers)))

RECURSIVE Flatten(_)
\* The concatenation of a list of lists (flatMap).
Flatten(lists) ==
    IF lists = <<>> THEN <<>> ELSE Head(lists) \o Flatten(Tail(lists))

\* finalScore of calculateOverallRisk, as a number of Len(individualScores)-ths:
\* Math.min(avgScore + correlationRisk, 100).
overallFinalScore(individualScores, correlations) ==
    LET length == Len(individualScores)
        sum == Sum([i \in 1..length |-> individualScores[i].score.score])
        correlationRisk ==
            Sum([i \in 1..Len(correlations) |-> correlations[i].riskIncrease])
    IN  MathMin(Plus(sum, Times(correlationRisk, length)), 100 * length)

generateOverallExplanation(individualScores, correlations, num, den) ==
    [level |-> getScoreLevel(num, den),
     score |-> MathRound(num, den),
     analyzed |-> Len(individualScores),
     highRiskEvents |->
        Len(SelectSeq(individualScores, LAMBDA item : Geq(item.score.score, 60))),
     correlations |-> Len(correlations)]

\* The list returned by generateOverallRecommendations when its in-place sort
\* of individualScores leaves the array as sorted.
generateOverallRecommendations(sorted, correlations, num, den) ==
    LET level == getScoreLevel(num, den)
        urgency ==
            IF level = "critical" THEN
                <<Recommendation("URGENT: Multiple high-risk changes detected - coordinate immediate investigation", <<>>),
                  Recommendation("Consider emergency rollback procedures", <<>>)>>
            ELSE IF level = "high" THEN
                <<Recommendation("Prioritize investigation of identified high-risk changes", <<>>),
                  Recommendation("Prepare rollback plans for recent changes", <<>>)>>
            ELSE <<>>
        topEvents == Slice(sorted, 3)
        investigate ==
            [index \in 1..Len(topEvents) |->
                Recommendation("Investigate",
                               <<index, topEvents[index].event.type,
                                 topEvents[index].event.service,
                                 topEvents[index].score.score>>)]
        analyze ==
            IF Len(correlations) > 0 THEN
                <<Recommendation("Analyze change correlations and dependencies", <<>>)>>
            ELSE <<>>
    IN  urgency \o investigate \o analyze

\* calculateOverallRisk without its case for an empty list: the mean of no
\* scores is 0 / 0.
calculateOverallRisk_noEmptyCase(individualScores, correlations, context, sortedFactors, sorted) ==
    LET den == Len(individualScores)
        finalScore ==
            IF den = 0 THEN NaN ELSE overallFinalScore(individualScores, correlations)
    IN  [score |-> MathRound(finalScore, den),
         level |-> getScoreLevel(finalScore, den),
         explanation |->
            generateOverallExplanation(individualScores, correlations, finalScore, den),
         factors |-> Slice(sortedFactors, 5),
         recommendations |->
            generateOverallRecommendations(sorted, correlations, finalScore, den)]

\* The ScoreResult of calculateOverallRisk when the factor sort yields
\* sortedFactors and the in-place sort of individualScores yields sorted.
calculateOverallRisk(individualScores, correlations, context, sortedFactors, sorted) ==
    IF Len(individualScores) = 0 THEN
        [score |-> 0,
         level |-> "low",
         explanation |-> "No change events found in the specified time window.",
         factors |-> <<>>,
         recommendations |->
            <<Recommendation("No recent changes detected - investigate other potential causes", <<>>)>>]
    ELSE
        LET den == Len(individualScores)
            finalScore == overallFinalScore(individualScores, correlations)
        IN  [score |-> MathRound(finalScore, den),
             level |-> getScoreLevel(finalScore, den),
             explanation |->
                generateOverallExplanation(individualScores, correlations, finalScore, den),
             factors |-> Slice(sortedFactors, 5),
             recommendations |->
                generateOverallRecommendations(sorted, correlations, finalScore, den)]

\* events.map(event => ({event, score: scoreChangeEvent(event, context, events)}))
mapIndividualScores(events, context) ==
    [i \in 1..Len(events) |->
        [event |-> events[i], score |-> scoreChangeEvent(events[i], context, events)]]

(***************************************************************************)
(* Inputs                                                                  *)
(***************************************************************************)
\* context.incidentAt of every request, in milliseconds.
IncidentAt == 3333 * MsPerMinute

\* incidentAt - occurred_at in milliseconds, on both sides of every bucket
\* boundary of the timing factor.
BoundaryDiffs ==
    {0 - 1, 0, 3 * MsPerMinute,
     5 * MsPerMinute, 5 * MsPerMinute + 1,
     15 * MsPerMinute, 15 * MsPerMinute + 1,
     30 * MsPerMinute, 30 * MsPerMinute + 1,
     60 * MsPerMinute, 60 * MsPerMinute + 1,
     120 * MsPerMinute, 120 * MsPerMinute + 1}

Services == {S_payment_api, S_Auth, S_database, S_web, S_orders}

\* context.service: <<>> when the caller gives none.
ContextServices == {<<>>, S_web, S_payment_api}

Environments ==
    {S_prod, S_production, S_Staging, S_dev, S_development, S_test, S_qa,
     S_constructor}

Types ==
    {S_deployment, S_migration, S_config_change, S_infrastructure, S_rollback,
     S_hotfix, S_feature_flag, S_scaling, S_maintenance,
     S_release, S_Deployment, S_constructor}

Meta(affects_all_users, breaking_change, database_migration) ==
    [affects_all_users |-> affects_all_users, breaking_change |-> breaking_change,
     database_migration |-> database_migration, author |-> ""]

NoFlags == Meta(FALSE, FALSE, FALSE)

Metas == {NoFlags, Meta(TRUE, FALSE, FALSE), Meta(FALSE, TRUE, TRUE), Meta(TRUE, TRUE, TRUE)}

Contexts == [incidentAt : {IncidentAt}, service : ContextServices]

\* Events on every timing boundary, for every service.
BoundaryEvents ==
    [id : {1},
     occurred_at : {IncidentAt - d : d \in BoundaryDiffs},
     service : Services,
     environment : {S_prod, S_Staging},
     type : {S_deployment, S_migration},
     meta : {NoFlags}]

\* Events of every type, environment and flag combination.
TableEvents ==
    [id : {1},
     occurred_at : {IncidentAt - d :
                      d \in {0 - 1, 3 * MsPerMinute, 30 * MsPerMinute, 120 * MsPerMinute + 1}},
     service : Services,
     environment : Environments,
     type : Types,
     meta : Metas]

\* The events scored one by one.
SingleEvents == BoundaryEvents \cup TableEvents

EventRequests ==
    {[op |-> "scoreChangeEvent", event |-> e, context |-> c, events |-> <<e>>] :
        e \in SingleEvents, c \in Contexts}

\* The longest batch handed to scoreMultipleEvents.
MaxBatch == 5

Event(id, minutesBefore, service, environment, type, meta) ==
    [id |-> id, occurred_at |-> IncidentAt - minutesBefore * MsPerMinute,
     service |-> service, environment |-> environment, type |-> type, meta |-> meta]

\* The stored events the batches are drawn from.
Catalogue ==
    {Event(101, 3, S_payment_api, S_prod, S_deployment, NoFlags),
     Event(102, 12, S_Auth, S_prod, S_deployment, Meta(FALSE, TRUE, FALSE)),
     Event(103, 20, S_database, S_prod, S_migration, Meta(FALSE, FALSE, TRUE)),
     Event(104, 45, S_web, S_Staging, S_deployment, NoFlags),
     Event(105, 90, S_orders, S_prod, S_deployment, NoFlags),
     Event(106, 200, S_search, S_test, S_deployment, NoFlags),
     Event(107, 8, S_database, S_prod, S_hotfix, Meta(TRUE, FALSE, FALSE))}

\* Every list of at most MaxBatch distinct stored events, in every order.
Batches ==
    UNION {{b \in [1..k -> Catalogue] : \A i, j \in 1..k : i # j => b[i] # b[j]} :
              k \in 0..MaxBatch}

\* Single events whose type or environment is a key no table holds.
UnlistedEvents ==
    [id : {1},
     occurred_at : {IncidentAt - 3 * MsPerMinute, IncidentAt - 120 * MsPerMinute - 1},
     service : Services,
     environment : {S_prod, S_qa, S_constructor},
     type : {S_deployment, S_Deployment, S_release, S_constructor},
     meta : {NoFlags}]

BatchRequests ==
    {[op |-> "scoreMultipleEvents", events |-> b, context |-> c] :
        b \in Batches \cup {<<e>> : e \in UnlistedEvents},
        c \in [incidentAt : {IncidentAt}, service : {S_database}]}

\* An event at an instant given in milliseconds before the incident.
EventAt(id, msBefore, service, type, meta) ==
    [id |-> id, occurred_at |-> IncidentAt - msBefore,
     service |-> service, environment |-> S_prod, type |-> type, meta |-> meta]

\* The events of pool at the positions in chosen, in the order of pool.
Pick(pool, chosen) ==
    [k \in 1..Cardinality(chosen) |->
        pool[CHOOSE i \in chosen : Cardinality({j \in chosen : j < i}) = k - 1]]

\* Every list getAll can return from the stored events pool, which is in
\* the order of the query.
Selections(pool) == {Pick(pool, chosen) : chosen \in SUBSET DOMAIN pool}

\* Stored events of one service around both ends of the 24 hours before
\* the incident, and one event of another service.
FrequencyPool ==
    <<EventAt(201, 24 * 60 * MsPerMinute, S_orders, S_scaling, NoFlags),
      EventAt(202, 24 * 60 * MsPerMinute + 1, S_orders, S_scaling, NoFlags),
      EventAt(203, 0, S_orders, S_scaling, NoFlags),
      EventAt(204, 0 - 1, S_orders, S_scaling, NoFlags),
      EventAt(205, 100 * MsPerMinute, S_orders, S_scaling, NoFlags),
      EventAt(206, 300 * MsPerMinute, S_orders, S_scaling, NoFlags),
      EventAt(207, 500 * MsPerMinute, S_orders, S_scaling, NoFlags),
      EventAt(208, 700 * MsPerMinute, S_orders, S_scaling, NoFlags),
      EventAt(209, 900 * MsPerMinute, S_orders, S_scaling, NoFlags),
      EventAt(210, 400 * MsPerMinute, S_checkout, S_scaling, NoFlags)>>

\* Stored events of several services around both ends of the ten minutes
\* before and after event 301, with every kind of meta flag.
BlastPool ==
    <<EventAt(301, 40 * MsPerMinute, S_orders, S_config_change, NoFlags),
      EventAt(302, 50 * MsPerMinute, S_checkout, S_config_change, NoFlags),
      EventAt(303, 30 * MsPerMinute, S_search, S_config_change, NoFlags),
      EventAt(304, 50 * MsPerMinute + 1, S_web, S_config_change, Meta(FALSE, TRUE, FALSE)),
      EventAt(305, 30 * MsPerMinute - 1, S_Auth, S_config_change, Meta(FALSE, FALSE, TRUE)),
      EventAt(306, 45 * MsPerMinute, S_orders, S_config_change, Meta(TRUE, TRUE, TRUE)),
      EventAt(307, 42 * MsPerMinute, S_database, S_config_change, Meta(TRUE, FALSE, FALSE)),
      EventAt(308, 38 * MsPerMinute, S_payment_api, S_config_change, Meta(FALSE, TRUE, TRUE))>>

\* Stored migrations and deployments, one of them typed "Deployment".
MigrationPool ==
    {EventAt(401, 25 * MsPerMinute, S_database, S_migration, NoFlags),
     EventAt(402, 26 * MsPerMinute, S_orders, S_migration, NoFlags),
     EventAt(403, 27 * MsPerMinute, S_orders, S_deployment, NoFlags),
     EventAt(404, 28 * MsPerMinute, S_database, S_deployment, NoFlags),
     EventAt(405, 29 * MsPerMinute, S_checkout, S_Deployment, NoFlags)}

\* Every list of distinct events of MigrationPool, in every order.
MigrationBatches ==
    UNION {{b \in [1..k -> MigrationPool] : \A i, j \in 1..k : i # j => b[i] # b[j]} :
              k \in 0..Cardinality(MigrationPool)}

\* Stored events among which one has an environment that is a key no table
\* holds, one is typed "Migration", and two name their author.
MixedPool ==
    {[EventAt(501, 70 * MsPerMinute, S_checkout, S_release, NoFlags)
        EXCEPT !.environment = S_constructor],
     EventAt(502, 75 * MsPerMinute, S_orders, S_Migration,
             [NoFlags EXCEPT !.author = "alice"]),
     EventAt(503, 80 * MsPerMinute, S_database, S_migration,
             [NoFlags EXCEPT !.author = "bob"]),
     EventAt(504, 4 * MsPerMinute, S_payment_api, S_deployment, NoFlags)}

\* Every list of distinct events of MixedPool, in every order.
MixedBatches ==
    UNION {{b \in [1..k -> MixedPool] : \A i, j \in 1..k : i # j => b[i] # b[j]} :
              k \in 0..Cardinality(MixedPool)}

PoolRequests ==
    {[op |-> "scoreMultipleEvents", events |-> b, context |-> c] :
        b \in Selections(FrequencyPool) \cup Selections(BlastPool) \cup MigrationBatches
               \cup MixedBatches,
        c \in [incidentAt : {IncidentAt}, service : {<<>>}]}

\* The event of the worked example: a migration on "database" in "prod",
\* three minutes before an incident on the same service, scored alone.
ExampleEvent == EventAt(601, 3 * MsPerMinute, S_database, S_migration, NoFlags)

ExampleRequests ==
    {[op |-> "scoreChangeEvent", event |-> ExampleEvent,
      context |-> [incidentAt |-> IncidentAt, service |-> S_database],
      events |-> <<ExampleEvent>>],
     [op |-> "scoreMultipleEvents", events |-> <<ExampleEvent>>,
      context |-> [incidentAt |-> IncidentAt, service |-> S_database]]}

(***************************************************************************)
(* Request layer: query strings, storage, and what the controller reads    *)
(***************************************************************************)
\* A query parameter or filter the request does not carry.
undefined == <<"undefined">>

\* !value, for a value that is a string or undefined.
Falsy(value) == value = undefined \/ value = <<>>

\* What parseTimeWindow returns for a window that does not match.
null == NaN - 1

Digits == <<"0", "1", "2", "3", "4", "5", "6", "7", "8", "9">>

IsDigit(c) == \E d \in DOMAIN Digits : Digits[d] = c

DigitValue(c) == (CHOOSE d \in DOMAIN Digits : Digits[d] = c) - 1

RECURSIVE DecimalValue(_)
\* The number a string of decimal digits writes.
DecimalValue(digits) ==
    IF digits = <<>> THEN 0
    ELSE 10 * DecimalValue(SubSeq(digits, 1, Len(digits) - 1))
            + DigitValue(digits[Len(digits)])

\* The longest prefix of s that holds digits only.
LeadingDigits(s) ==
    LET n == CHOOSE k \in 0..Len(s) :
                /\ \A i \in 1..k : IsDigit(s[i])
                /\ k < Len(s) => ~IsDigit(s[k + 1])
    IN  SubSeq(s, 1, n)

\* parseInt(s) on a string without leading white space and without a radix
\* prefix: an optional sign and the leading decimal digits, NaN without any.
parseInt(s) ==
    LET signed == s # <<>> /\ s[1] \in {"-", "+"}
        digits == LeadingDigits(IF signed THEN Tail(s) ELSE s)
    IN  IF digits = <<>> THEN NaN
        ELSE IF signed /\ s[1] = "-" THEN 0 - DecimalValue(digits)
        ELSE DecimalValue(digits)

\* parseTimeWindow whose pattern matches a prefix of the window only.
parseTimeWindow_lenient(window) ==
    LET digits == LeadingDigits(window)
        n == Len(digits) + 1
    IN  IF digits # <<>> /\ n <= Len(window) /\ window[n] \in {"m", "h", "d"}
        THEN LET value == parseInt(digits)
             IN  IF window[n] = "m" THEN value * 60 * 1000
                 ELSE IF window[n] = "h" THEN value * 60 * 60 * 1000
                 ELSE value * 24 * 60 * 60 * 1000
        ELSE null

\* window.match(/^(\d+)([mhd])$/), and the milliseconds of the match.
parseTimeWindow(window) ==
    LET n == Len(window)
    IN  IF /\ n >= 2
           /\ \A i \in 1..(n - 1) : IsDigit(window[i])
           /\ window[n] \in {"m", "h", "d"}
        THEN LET value == parseInt(SubSeq(window, 1, n - 1))
             IN  IF window[n] = "m" THEN value * 60 * 1000
                 ELSE IF window[n] = "h" THEN value * 60 * 60 * 1000
                 ELSE value * 24 * 60 * 60 * 1000
        ELSE null

DaysInMonth(year, month) ==
    IF month = 2 THEN
        IF year % 4 = 0 /\ (year % 100 # 0 \/ year % 400 = 0) THEN 29 ELSE 28
    ELSE IF month \in {4, 6, 9, 11} THEN 30
    ELSE 31

\* The days from 1970-01-01 to a date of the proleptic Gregorian calendar.
DaysFromEpoch(year, month, day) ==
    LET y == IF month <= 2 THEN year - 1 ELSE year
        era == y \div 400
        yoe == y - era * 400
        doy == (153 * (IF month > 2 THEN month - 3 ELSE month + 9) + 2) \div 5 + day - 1
        doe == yoe * 365 + yoe \div 4 - yoe \div 100 + doy
    IN  era * 146097 + doe - 719468

\* new Date(s).getTime() for a string s: the instant of a date-time written
\* YYYY-MM-DDTHH:mm:ssZ with every field in its range, and NaN for a string
\* of that form with a field out of range and for a string that is no date
\* in any form.
DateParse(s) ==
    LET field(from, to) == SubSeq(s, from, to)
        digits(from, to) == \A i \in from..to : IsDigit(s[i])
    IN  IF /\ Len(s) = 20
           /\ digits(1, 4) /\ s[5] = "-" /\ digits(6, 7) /\ s[8] = "-"
           /\ digits(9, 10) /\ s[11] = "T" /\ digits(12, 13) /\ s[14] = ":"
           /\ digits(15, 16) /\ s[17] = ":" /\ digits(18, 19) /\ s[20] = "Z"
        THEN
            LET year == DecimalValue(field(1, 4))
                month == DecimalValue(field(6, 7))
                day == DecimalValue(field(9, 10))
                hour == DecimalValue(field(12, 13))
                minute == DecimalValue(field(15, 16))
                second == DecimalValue(field(18, 19))
            IN  IF /\ month \in 1..12
                   /\ day \in 1..DaysInMonth(year, month)
                   /\ minute \in 0..59
                   /\ second \in 0..59
                   /\ (hour \in 0..23 \/ (hour = 24 /\ minute = 0 /\ second = 0))
                THEN ((DaysFromEpoch(year, month, day) * 24 + hour) * 60 + minute)
                        * MsPerMinute + second * 1000
                ELSE NaN
        ELSE NaN

HexDigits ==
    {Digits[d] : d \in DOMAIN Digits}
        \cup {"a", "b", "c", "d", "e", "f", "A", "B", "C", "D", "E", "F"}

\* /^[0-9a-f]{8}-[0-9a-f]{4}-[1-5][0-9a-f]{3}-[89ab][0-9a-f]{3}-[0-9a-f]{12}$/i
\* tested on id.
uuidRegexTest(id) ==
    /\ Len(id) = 36
    /\ \A i \in {9, 14, 19, 24} : id[i] = "-"
    /\ \A i \in (1..36) \ {9, 14, 15, 19, 20, 24} : id[i] \in HexDigits
    /\ id[15] \in {"1", "2", "3", "4", "5"}
    /\ id[20] \in {"8", "9", "a", "b", "A", "B"}

\* The UUID that ends in the digit of number, of version 4.
Uuid(number) ==
    <<"0", "0", "0", "0", "0", "0", "0", "0", "-", "0", "0", "0", "0", "-", "4", "0", "0",
            "0", "-", "8", "0", "0", "0", "-", "0", "0", "0", "0", "0", "0", "0", "0", "0",
            "0", "0">> \o <<Digits[number + 1]>>

\* The instant of the incident of the requests, as the query writes it.
S_incidentAt == <<"1", "9", "7", "0", "-", "0", "1", "-", "0", "3", "T", "0", "7", ":",
        "3", "3", ":", "0", "0", "Z">>

\* A row of change_events.
Row(number, msBefore, service, environment, type) ==
    [id |-> Uuid(number), occurred_at |-> IncidentAt - msBefore, service |-> service,
     environment |-> environment, type |-> type, meta |-> NoFlags]

\* The rows of change_events, no two at the same instant: changes to three
\* services and one whose service an update has set to the empty string,
\* before and after the incident, inside and outside the two hours and the
\* 24 hours before it.
change_events ==
    {Row(1, 3 * MsPerMinute, S_payment_api, S_prod, S_deployment),
     Row(2, 8 * MsPerMinute, S_payment_api, S_prod, S_migration),
     Row(3, 5 * MsPerMinute, S_web, S_staging, S_config_change),
     Row(4, 6 * MsPerMinute, <<>>, S_prod, S_hotfix),
     Row(5, 100 * MsPerMinute, S_database, S_prod, S_migration),
     Row(6, 0 - 15 * MsPerMinute, S_payment_api, S_prod, S_release),
     Row(7, 25 * 60 * MsPerMinute, S_payment_api, S_prod, S_scaling),
     Row(8, 130 * MsPerMinute, S_web, S_prod, S_deployment)}

\* ChangeEventModel.getAll(filters): the rows every filter that is set lets
\* through, latest first, cut to the limit if one is set.  A filter on the
\* service or the environment that is undefined or empty is not set, and
\* neither is a limit of 0.
getAll(filters) ==
    LET rows ==
            {row \in change_events :
                /\ Falsy(filters.service) \/ row.service = filters.service
                /\ Falsy(filters.environment) \/ row.environment = filters.environment
                /\ row.occurred_at >= filters.from_date
                /\ row.occurred_at <= filters.to_date}
        ordered ==
            [k \in 1..Cardinality(rows) |->
                CHOOSE row \in rows :
                    Cardinality({r \in rows : r.occurred_at > row.occurred_at}) = k - 1]
    IN  IF filters.limit # 0 THEN Slice(ordered, filters.limit) ELSE ordered

\* ChangeEventModel.getById(id): the row of that id, or NoRow.
NoRow == [id |-> undefined]

getById(id) ==
    IF \E row \in change_events : row.id = id
    THEN CHOOSE row \in change_events : row.id = id
    ELSE NoRow

\* The query strings of the requests.
IncidentAtStrings ==
    {undefined, <<>>, S_incidentAt, <<"y", "e", "s", "t", "e", "r", "d", "a", "y">>, <<"1",
            "9", "7", "0", "-", "1", "3", "-", "0", "1", "T", "0", "0", ":", "0", "0", ":",
            "0", "0", "Z">>,
     <<"1", "9", "7", "0", "-", "0", "2", "-", "3", "0", "T", "0", "7", ":", "3", "3", ":",
             "0", "0", "Z">>}

WindowStrings ==
    {undefined, <<"2", "h">>, <<"3", "0", "m">>, <<"1", "d">>, <<"0", "m">>, <<>>, <<"2">>,
            <<"h">>, <<"2", "w">>,
     <<"2", ".", "5", "h">>, <<"-", "2", "h">>, <<"2", "H">>, <<"2", "h", " ">>}

LimitStrings == {undefined, <<"2">>, <<"0">>, <<"a", "b", "c">>, <<"3", "r", "d">>}

Ids ==
    {Uuid(n) : n \in 1..9}
        \cup {<<"4", "2">>, <<"0", "0", "0", "0", "0", "0", "0", "0", "-", "0", "0", "0",
                "0", "-", "0", "0", "0", "0", "-", "0", "0", "0", "0", "-", "0", "0", "0",
                "0", "0", "0", "0", "0", "0", "0", "0", "1">>,
              <<"0", "0", "0", "0", "0", "0", "0", "0", "-", "0", "0", "0", "0", "-", "4",
                      "0", "0", "0", "-", "7", "0", "0", "0", "-", "0", "0", "0", "0", "0",
                      "0", "0", "0", "0", "0", "0", "1">>,
              <<"0", "0", "0", "0", "0", "0", "0", "g", "-", "0", "0", "0", "0", "-", "4",
                      "0", "0", "0", "-", "8", "0", "0", "0", "-", "0", "0", "0", "0", "0",
                      "0", "0", "0", "0", "0", "0", "1">>,
              <<"0", "0", "0", "0", "0", "0", "0", "0", "-", "0", "0", "0", "0", "-", "4",
                      "0", "0", "0", "-", "8", "0", "0", "0", "-", "0", "0", "0", "0", "0",
                      "0", "0", "0", "0", "0", "0", "1", "1">>,
              <<"0", "0", "0", "0", "0", "0", "0", "A", "-", "0", "0", "0", "0", "-", "4",
                      "0", "0", "0", "-", "B", "0", "0", "0", "-", "0", "0", "0", "0", "0",
                      "0", "0", "0", "0", "0", "0", "F">>}

IncidentRequests ==
    {[op |-> "scoreIncident", query |-> q] :
        q \in [incidentAt : IncidentAtStrings, service : {undefined, <<>>, S_payment_api},
               environment : {undefined, S_prod}, window : WindowStrings,
               limit : LimitStrings]}

EventIdRequests ==
    {[op |-> "scoreEvent", params |-> p, query |-> q] :
        p \in [id : Ids],
        q \in [incidentAt : IncidentAtStrings, service : {undefined, S_payment_api},
               environment : {undefined}]}

MethodologyRequests == {[op |-> "explainScoring"]}

\* The payload of explainScoring, with every figure its texts state as a
\* number: weights in hundredths, timing buckets in minutes, multipliers in
\* tenths, level ranges in points, correlation increases in points; a range
\* without an upper end ends at 10000.
scoring_methodology ==
    [factors |->
        <<[name |-> "Timing Proximity", weight |-> 30,
           scoring |->
              {[from |-> 0, to |-> 5, points |-> 100],
               [from |-> 5, to |-> 15, points |-> 85],
               [from |-> 15, to |-> 30, points |-> 70],
               [from |-> 30, to |-> 60, points |-> 50],
               [from |-> 60, to |-> 120, points |-> 30],
               [from |-> 120, to |-> 10000, points |-> 10]}],
          [name |-> "Event Type Risk", weight |-> 25,
           scoring |->
              {[key |-> S_migration, points |-> 85],
               [key |-> S_hotfix, points |-> 80],
               [key |-> S_infrastructure, points |-> 75],
               [key |-> S_deployment, points |-> 70],
               [key |-> S_config_change, points |-> 60],
               [key |-> S_feature_flag, points |-> 50],
               [key |-> S_scaling, points |-> 45],
               [key |-> S_rollback, points |-> 40],
               [key |-> S_maintenance, points |-> 30]}],
          [name |-> "Service Criticality", weight |-> 20,
           scoring |->
              {[key |-> "Same as incident service", points |-> 90],
               [key |-> "Payment/Billing services", points |-> 90],
               [key |-> "Authentication services", points |-> 85],
               [key |-> "Database services", points |-> 85],
               [key |-> "API/Gateway services", points |-> 80],
               [key |-> "Web/Frontend services", points |-> 60],
               [key |-> "Other services", points |-> 50]}],
          [name |-> "Change Frequency", weight |-> 15,
           scoring |->
              {[from |-> 7, to |-> 10000, points |-> 70],
               [from |-> 4, to |-> 6, points |-> 40],
               [from |-> 2, to |-> 3, points |-> 20],
               [from |-> 0, to |-> 1, points |-> 30]}],
          [name |-> "Blast Radius", weight |-> 10,
           scoring |->
              [services |->
                  {[from |-> 1, to |-> 1, points |-> 20],
                   [from |-> 2, to |-> 3, points |-> 50],
                   [from |-> 4, to |-> 10000, points |-> 80]},
               breaking_change |-> 25,
               affects_all_users |-> 20,
               database_migration |-> 15]]>>,
     environment_multipliers |->
        {[key |-> S_production, multiplier |-> 10],
         [key |-> S_staging, multiplier |-> 7],
         [key |-> S_development, multiplier |-> 3],
         [key |-> S_test, multiplier |-> 2]},
     risk_levels |->
        {[level |-> "critical", from |-> 80, to |-> 100],
         [level |-> "high", from |-> 60, to |-> 79],
         [level |-> "medium", from |-> 40, to |-> 59],
         [level |-> "low", from |-> 0, to |-> 39]},
     correlations |->
        [deployments_each |-> 10,
         migration_with_deployment |-> 25,
         cross_service_per_additional_service |-> 5]]

(***************************************************************************)
(* State                                                                   *)
(***************************************************************************)
VARIABLES
    request,    \* the call: its operation and its arguments
    response,   \* the value the call returned, once it has returned
    previous,   \* the value the preceding call with these arguments returned
    sortImpl    \* what Array.prototype.sort of this engine did, input by input

vars == <<request, response, previous, sortImpl>>

Pending == [status |-> "pending"]

NoCall == [status |-> "none"]

\* A sort whose order is not a function of its input.
Sort_anyOrder(impl, seq, key, comparator) == SortOutcomes(seq, key)

\* The outcomes of sorting seq: the order is a function of the array and the
\* comparator, so an array this engine has sorted before is sorted as it was
\* then, and any other array in one of the orders SortOutcomes allows.
Sort(impl, seq, key, comparator) ==
    LET seen == {s \in impl : s.comparator = comparator /\ s.input = seq}
    IN  IF seen # {} THEN {s.output : s \in seen} ELSE SortOutcomes(seq, key)

Init ==
    /\ request \in EventRequests \cup BatchRequests \cup PoolRequests \cup ExampleRequests
                    \cup IncidentRequests \cup EventIdRequests \cup MethodologyRequests
    /\ response = Pending
    /\ previous = NoCall
    /\ sortImpl = {}

ScoreChangeEvent ==
    /\ request.op = "scoreChangeEvent"
    /\ response = Pending
    /\ response' =
         [status |-> "done",
          result |-> scoreChangeEvent(request.event, request.context, request.events)]
    /\ UNCHANGED <<request, previous, sortImpl>>

\* scoreMultipleEvents, statement by statement: what it can return and what
\* the engine's sort has then done.  individualScores is the array that map
\* built; generateOverallRecommendations sorts that same array in place
\* (unless the batch is empty, where calculateOverallRisk returns before it),
\* so the array returned is the sorted one.  The input list events is only
\* read: map, filter and the Set constructor build new objects.
scoreMultipleEvents(impl, events, context) ==
    UNION {UNION {UNION {
        {[result |->
            [overallScore |->
                calculateOverallRisk(individualScores, correlations, context,
                                     sortedFactors, sorted),
             individualScores |-> sorted,
             correlations |-> correlations],
          sortImpl |->
            IF Len(individualScores) = 0 THEN impl
            ELSE impl \cup
                    {[comparator |-> "weighted score", input |-> allFactors,
                      output |-> sortedFactors],
                     [comparator |-> "score", input |-> individualScores,
                      output |-> sorted]}] :
            sortedFactors \in
                Sort(impl, allFactors,
                     [i \in 1..Len(allFactors) |-> WeightedScore(allFactors[i])],
                     "weighted score"),
            sorted \in
                Sort(impl, individualScores,
                     [i \in 1..Len(individualScores) |-> individualScores[i].score.score],
                     "score")} :
        allFactors \in {Flatten([i \in 1..Len(individualScores) |->
                                    individualScores[i].score.factors])}} :
        correlations \in {findEventCorrelations(events, context)}} :
        individualScores \in {mapIndividualScores(events, context)}}

ScoreMultipleEvents ==
    /\ request.op = "scoreMultipleEvents"
    /\ response = Pending
    /\ \E outcome \in scoreMultipleEvents(sortImpl, request.events, request.context) :
         /\ response' = [status |-> "done", result |-> outcome.result]
         /\ sortImpl' = outcome.sortImpl
    /\ UNCHANGED <<request, previous>>

\* reply.code(code).send(...) of a handler that returns before it has called
\* storage or engine.
Rejected(code, message) ==
    [status |-> "done", code |-> code, message |-> message, calls |-> <<>>]

\* ScoringController.scoreIncident.  The response keeps, next to what is
\* sent, the calls to storage and engine the handler made, in their order.
ScoreIncident ==
    /\ request.op = "scoreIncident"
    /\ response = Pending
    /\ LET incidentAt == request.query.incidentAt
           service == request.query.service
           environment == request.query.environment
           window == IF request.query.window = undefined THEN <<"2", "h">>
                     ELSE request.query.window
           limit == request.query.limit
       IN  IF Falsy(incidentAt) THEN
               /\ response' =
                    Rejected(400, "incidentAt parameter is required (ISO 8601 format)")
               /\ UNCHANGED sortImpl
           ELSE IF DateParse(incidentAt) = NaN THEN
               /\ response' =
                    Rejected(400, "Invalid incidentAt format. Use ISO 8601 format")
               /\ UNCHANGED sortImpl
           ELSE IF parseTimeWindow(window) = null THEN
               /\ response' =
                    Rejected(400, "Invalid window format")
               /\ UNCHANGED sortImpl
           ELSE
               LET incidentDate == DateParse(incidentAt)
                   startTime == incidentDate - parseTimeWindow(window)
                   context == [incidentAt |-> incidentDate, service |-> service]
                   limitNum == IF Falsy(limit) THEN NaN ELSE parseInt(limit)
                   filters ==
                       [from_date |-> startTime,
                        to_date |-> incidentDate,
                        service |-> IF Falsy(service) THEN undefined ELSE service,
                        environment |->
                            IF Falsy(environment) THEN undefined ELSE environment,
                        limit |->
                            IF limitNum # NaN /\ limitNum > 0 /\ limitNum <= 1000
                            THEN limitNum ELSE 0]
               IN  \E events \in {getAll(filters)} :
                   \E outcome \in scoreMultipleEvents(sortImpl, events, context) :
                       /\ response' =
                            [status |-> "done",
                             code |-> 200,
                             calls |->
                                <<[fn |-> "getAll", filters |-> filters],
                                  [fn |-> "scoreMultipleEvents",
                                   events |-> events, context |-> context]>>,
                             data |->
                                [analysis_window |->
                                    [from |-> startTime, to |-> incidentDate,
                                     duration |-> window],
                                 overall_assessment |-> outcome.result.overallScore,
                                 individual_scores |-> outcome.result.individualScores,
                                 correlations |-> outcome.result.correlations,
                                 total_events_analyzed |-> Len(events)]]
                       /\ sortImpl' = outcome.sortImpl
    /\ UNCHANGED <<request, previous>>

\* ScoringController.scoreEvent.
ScoreEvent ==
    /\ request.op = "scoreEvent"
    /\ response = Pending
    /\ LET id == request.params.id
           incidentAt == request.query.incidentAt
           service == request.query.service
       IN  IF ~uuidRegexTest(id) THEN
               response' = Rejected(400, "Invalid UUID format")
           ELSE IF Falsy(incidentAt) THEN
               response' =
                    Rejected(400, "incidentAt parameter is required (ISO 8601 format)")
           ELSE IF DateParse(incidentAt) = NaN THEN
               response' =
                    Rejected(400, "Invalid incidentAt format. Use ISO 8601 format")
           ELSE IF getById(id) = NoRow THEN
               response' =
                    [status |-> "done", code |-> 404,
                     message |-> "Change event not found",
                     calls |-> <<[fn |-> "getById", id |-> id]>>]
           ELSE
               LET incidentDate == DateParse(incidentAt)
                   event == getById(id)
                   context == [incidentAt |-> incidentDate, service |-> service]
                   oneDayBefore == incidentDate - 24 * 60 * 60 * 1000
                   filters ==
                       [service |-> event.service,
                        environment |-> undefined,
                        from_date |-> oneDayBefore,
                        to_date |-> incidentDate,
                        limit |-> 0]
               IN  \E relatedEvents \in {getAll(filters)} :
                       response' =
                            [status |-> "done",
                             code |-> 200,
                             calls |->
                                <<[fn |-> "getById", id |-> id],
                                  [fn |-> "getAll", filters |-> filters],
                                  [fn |-> "scoreChangeEvent", event |-> event,
                                   context |-> context, events |-> relatedEvents]>>,
                             data |->
                                [event |-> event,
                                 risk_assessment |->
                                    scoreChangeEvent(event, context, relatedEvents),
                                 total_related_events |-> Len(relatedEvents)]]
    /\ UNCHANGED <<request, previous, sortImpl>>

\* ScoringController.explainScoring.
ExplainScoring ==
    /\ request.op = "explainScoring"
    /\ response = Pending
    /\ response' =
         [status |-> "done", code |-> 200, calls |-> <<>>,
          data |-> [scoring_methodology |-> scoring_methodology]]
    /\ UNCHANGED <<request, previous, sortImpl>>

\* The caller makes the same call again, with the arguments as the first
\* call left them.
CallAgain ==
    /\ response # Pending
    /\ previous = NoCall
    /\ previous' = response
    /\ response' = Pending
    /\ UNCHANGED <<request, sortImpl>>

Next ==
    \/ ScoreChangeEvent
    \/ ScoreMultipleEvents
    \/ ScoreIncident
    \/ ScoreEvent
    \/ ExplainScoring
    \/ CallAgain

Spec == Init /\ [][Next]_vars

\* scoreMultipleEvents alone, called once on each of the batches.
InitBatch ==
    /\ request \in BatchRequests \cup PoolRequests
    /\ response = Pending
    /\ previous = NoCall
    /\ sortImpl = {}

NextBatch == ScoreMultipleEvents

SpecBatch == InitBatch /\ [][NextBatch]_vars

(***************************************************************************)
(* What the claims speak about                                             *)
(***************************************************************************)
EventDone == request.op = "scoreChangeEvent" /\ response # Pending
BatchDone == request.op = "scoreMultipleEvents" /\ response # Pending

\* Every result of scoreChangeEvent the state holds, with the event it is
\* the result for: the result of the call itself, or the individual scores
\* of a scored batch.  Context and batch are those of the request.
Scored ==
    IF EventDone THEN {[event |-> request.event, score |-> response.result]}
    ELSE IF BatchDone THEN
        {response.result.individualScores[i] :
            i \in DOMAIN response.result.individualScores}
    ELSE {}

\* incidentAt - occurred_at of an event of the request, in milliseconds.
DiffOf(event) == request.context.incidentAt - event.occurred_at

\* The level the documented breakpoints give an integer score.
BreakpointLevel(score) ==
    IF score >= 80 THEN "critical"
    ELSE IF score >= 60 THEN "high"
    ELSE IF score >= 40 THEN "medium"
    ELSE "low"

\* C1: the level scoreChangeEvent returns is the level the breakpoints give
\* the rounded score it returns (critical iff score >= 80, high iff
\* 60 <= score < 80, medium iff 40 <= score < 60, low iff score < 40).
C1_LevelOfReturnedScore ==
    \A s \in Scored : s.score.level = BreakpointLevel(s.score.score)

\* C2: the score scoreChangeEvent returns is an integer in [0,100], for
\* every event, context and batch.
C2_ScoreInRange ==
    \A s \in Scored : s.score.score \in 0..100

\* C3: for a non-empty batch, individualScores has one entry per input
\* event in input order, entry i holding events[i] and
\* scoreChangeEvent(events[i], context, events).
C3_IndividualScoresInInputOrder ==
    BatchDone /\ Len(request.events) > 0 =>
        LET individualScores == response.result.individualScores
        IN  /\ Len(individualScores) = Len(request.events)
            /\ \A i \in 1..Len(request.events) :
                 /\ individualScores[i].event = request.events[i]
                 /\ individualScores[i].score =
                      scoreChangeEvent(request.events[i], request.context, request.events)

\* C4: for a non-empty batch, the level of overallScore is the level the
\* breakpoints give the integer overallScore.score.
C4_OverallLevelOfReturnedScore ==
    BatchDone /\ Len(request.events) > 0 =>
        response.result.overallScore.level =
            BreakpointLevel(response.result.overallScore.score)

\* C5: for a non-empty batch, overallScore.score is
\* round(clamp(mean of the individual scores + sum of riskIncrease, 0, 100)):
\* an integer in [0,100] within a half of the clamped value, halves upwards.
C5_OverallScoreIsRoundedClampedMean ==
    BatchDone /\ Len(request.events) > 0 =>
        LET n == Len(request.events)
            score == response.result.overallScore.score
            \* n times (mean + correlation risk)
            total ==
                Sum([i \in 1..n |->
                        scoreChangeEvent(request.events[i], request.context,
                                         request.events).score])
                + n * Sum([i \in 1..Len(response.result.correlations) |->
                              response.result.correlations[i].riskIncrease])
            clamped == IF total < 0 THEN 0 ELSE IF total > 100 * n THEN 100 * n ELSE total
        IN  /\ score \in 0..100
            /\ 2 * n * score - n <= 2 * clamped
            /\ 2 * clamped < 2 * n * score + n

\* The Service Criticality the claimed priority order gives a service name:
\* payment/billing, auth/login, database/db, api/gateway, web/frontend.
ClaimedCriticality(service) ==
    LET serviceName == toLowerCase(service)
    IN  IF includes(serviceName, S_payment) \/ includes(serviceName, S_billing) THEN 90
        ELSE IF includes(serviceName, S_auth) \/ includes(serviceName, S_login) THEN 85
        ELSE IF includes(serviceName, S_database) \/ includes(serviceName, S_db) THEN 85
        ELSE IF includes(serviceName, S_api) \/ includes(serviceName, S_gateway) THEN 80
        ELSE IF includes(serviceName, S_web) \/ includes(serviceName, S_frontend) THEN 60
        ELSE 50

SameService(event) ==
    request.context.service # <<>> /\ event.service = request.context.service

\* C6: when event.service is not context.service (or no context.service is
\* given), Service Criticality follows the priority order payment/billing 90,
\* auth/login 85, database/db 85, api/gateway 80, web/frontend 60, else 50.
C6_CriticalityPriorityOrder ==
    \A s \in Scored :
        ~SameService(s.event) =>
            s.score.factors[3].score = ClaimedCriticality(s.event.service)

\* C7: when context.service is given and event.service equals it, the
\* Service Criticality score is 90 whatever the service name contains.
C7_SameServiceScores90 ==
    \A s \in Scored :
        SameService(s.event) =>
            /\ s.score.factors[3].name = "Service Criticality"
            /\ s.score.factors[3].score = 90

\* An event on the incident's own service "web", whose name alone would
\* score 60, has been scored 90.
C7_Witness ==
    /\ EventDone
    /\ request.context.service = S_web
    /\ request.event.service = S_web
    /\ ClaimedCriticality(request.event.service) = 60
    /\ response.result.factors[3].score = 90

\* The timing buckets of the claim: a difference d >= 0 in (low, high]
\* minutes scores score; the first bucket also holds d = 0.
TimingBuckets ==
    {[low |-> 0 - 1, high |-> 5, score |-> 100],
     [low |-> 5, high |-> 15, score |-> 85],
     [low |-> 15, high |-> 30, score |-> 70],
     [low |-> 30, high |-> 60, score |-> 50],
     [low |-> 60, high |-> 120, score |-> 30]}

\* C8: Timing Proximity is 0 for a negative minutesDiff, else 100 up to 5
\* minutes, 85 up to 15, 70 up to 30, 50 up to 60, 30 up to 120 and 10
\* beyond, every upper boundary inclusive and minutesDiff = 0 scoring 100.
C8_TimingBuckets ==
    \A s \in Scored :
        LET d == DiffOf(s.event)
            timing == s.score.factors[1]
        IN  /\ timing.name = "Timing Proximity"
            /\ d < 0 => timing.score = 0
            /\ d = 0 => timing.score = 100
            /\ \A b \in TimingBuckets :
                 (d >= 0 /\ b.low * MsPerMinute < d /\ d <= b.high * MsPerMinute)
                    => timing.score = b.score
            /\ d > 120 * MsPerMinute => timing.score = 10

\* An event exactly five minutes before the incident, on the inclusive upper
\* boundary of the first bucket, has been scored 100.
C8_Witness ==
    /\ EventDone
    /\ DiffOf(request.event) = 5 * MsPerMinute
    /\ response.result.factors[1].score = 100

\* C9: of two events with non-negative minutesDiff a <= b against the same
\* incident, the one with a has a Timing Proximity score at least that of
\* the one with b.
C9_TimingMonotone ==
    \A s1, s2 \in Scored :
        (0 <= DiffOf(s1.event) /\ DiffOf(s1.event) <= DiffOf(s2.event))
            => s1.score.factors[1].score >= s2.score.factors[1].score

\* A scored batch holds an event in the last timing bucket and one beyond
\* it, the closer one scored strictly higher.
C9_Witness ==
    /\ BatchDone
    /\ \E s1, s2 \in Scored :
         /\ DiffOf(s1.event) > 60 * MsPerMinute
         /\ DiffOf(s1.event) <= 120 * MsPerMinute
         /\ DiffOf(s2.event) > 120 * MsPerMinute
         /\ s1.score.factors[1].score > s2.score.factors[1].score

\* The Event Type Risk the claimed table gives a lower-cased type.
ClaimedTypeRisk(type) ==
    IF type = S_migration THEN 85
    ELSE IF type = S_hotfix THEN 80
    ELSE IF type = S_infrastructure THEN 75
    ELSE IF type = S_deployment THEN 70
    ELSE IF type = S_config_change THEN 60
    ELSE IF type = S_feature_flag THEN 50
    ELSE IF type = S_scaling THEN 45
    ELSE IF type = S_rollback THEN 40
    ELSE IF type = S_maintenance THEN 30
    ELSE 50

\* C10: Event Type Risk is the table entry of the lower-cased type, and 50
\* for every type the table does not hold, never a non-numeric score.
C10_TypeRiskTable ==
    \A s \in Scored :
        /\ s.score.factors[2].score # NaN
        /\ s.score.factors[2].score = ClaimedTypeRisk(toLowerCase(s.event.type))

\* The number of events of the batch on the service of event that occurred
\* in the 24 hours up to the incident, both ends included.
FrequencyCount(event) ==
    Cardinality({i \in DOMAIN request.events :
        /\ request.events[i].service = event.service
        /\ DiffOf(request.events[i]) >= 0
        /\ DiffOf(request.events[i]) <= 24 * 60 * MsPerMinute})

ClaimedFrequency(count) ==
    IF count <= 1 THEN 30
    ELSE IF count <= 3 THEN 20
    ELSE IF count <= 6 THEN 40
    ELSE 70

\* C11: Change Frequency counts the batch events e with e.service =
\* event.service and incidentAt - 24h <= e.occurred_at <= incidentAt, and
\* scores 30 for a count of 0 or 1, 20 for 2 or 3, 40 for 4 to 6 and 70 for 7
\* or more.
C11_ChangeFrequency ==
    \A s \in Scored :
        /\ s.score.factors[4].name = "Change Frequency"
        /\ s.score.factors[4].score = ClaimedFrequency(FrequencyCount(s.event))

\* A batch has been scored in which the event exactly 24 hours before the
\* incident is one of seven counted, the event at the incident's instant
\* among them, and scores 70.
C11_Witness ==
    /\ BatchDone
    /\ \E s, t \in Scored :
         /\ DiffOf(s.event) = 24 * 60 * MsPerMinute
         /\ DiffOf(t.event) = 0
         /\ t.event.service = s.event.service
         /\ FrequencyCount(s.event) = 7
         /\ s.score.factors[4].score = 70

\* The services of the other events of the batch within ten minutes of
\* event, before or after, and the service of event.
AffectedServices(event) ==
    {request.events[i].service :
        i \in {j \in DOMAIN request.events :
                 /\ request.events[j] # event
                 /\ request.events[j].occurred_at - event.occurred_at <= 10 * MsPerMinute
                 /\ event.occurred_at - request.events[j].occurred_at <= 10 * MsPerMinute}}
    \cup {event.service}

\* The sum the claim clamps: the score of the set size and the additions of
\* the meta flags.
ClaimedBlastSum(event) ==
    LET size == Cardinality(AffectedServices(event))
    IN  (IF size = 1 THEN 20 ELSE IF size <= 3 THEN 50 ELSE 80)
        + (IF event.meta.affects_all_users THEN 20 ELSE 0)
        + (IF event.meta.breaking_change THEN 25 ELSE 0)
        + (IF event.meta.database_migration THEN 15 ELSE 0)

\* C12: Blast Radius scores the set of the services of the other batch events
\* within ten minutes (inclusive) of the event, with the event's own service,
\* 20 for size 1, 50 for size 2 or 3, 80 for size 4 or more, adds 20, 25 and
\* 15 for the meta flags affects_all_users, breaking_change and
\* database_migration, and is the minimum of that sum and 100.
C12_BlastRadius ==
    \A s \in Scored :
        /\ s.score.factors[5].name = "Blast Radius"
        /\ s.score.factors[5].score =
              IF ClaimedBlastSum(s.event) > 100 THEN 100 ELSE ClaimedBlastSum(s.event)

\* A batch has been scored in which an event with all three flags has four
\* or more affected services, so that its sum of 140 is clamped to 100, and
\* in which the score 80 of another event counts a service that only an
\* event exactly ten minutes away from it brings.
C12_Witness ==
    /\ BatchDone
    /\ \E s \in Scored :
         /\ Cardinality(AffectedServices(s.event)) >= 4
         /\ ClaimedBlastSum(s.event) = 140
         /\ s.score.factors[5].score = 100
    /\ \E s, t \in Scored :
         /\ t.event.occurred_at - s.event.occurred_at = 10 * MsPerMinute
         /\ \A u \in Scored : u.event.service = t.event.service => u = t
         /\ Cardinality(AffectedServices(s.event)) = 4
         /\ s.score.factors[5].score = 80

\* C13: scoreChangeEvent returns exactly five factors, in the order Timing
\* Proximity, Event Type Risk, Service Criticality, Change Frequency, Blast
\* Radius, with the weights 0.30, 0.25, 0.20, 0.15, 0.10 that sum to 1.0;
\* every factor score lies in [0,100] and the weighted sum is at most 100.
C13_FiveBoundedFactors ==
    \A s \in Scored :
        LET factors == s.score.factors
        IN  /\ Len(factors) = 5
            /\ [i \in 1..5 |-> factors[i].name] =
                 <<"Timing Proximity", "Event Type Risk", "Service Criticality",
                   "Change Frequency", "Blast Radius">>
            /\ [i \in 1..5 |-> factors[i].weight] = <<30, 25, 20, 15, 10>>
            /\ Sum([i \in 1..5 |-> factors[i].weight]) = 100
            /\ \A i \in 1..5 : factors[i].score \in 0..100
            /\ Sum([i \in 1..5 |-> factors[i].score * factors[i].weight]) <= 100 * 100

\* The multiplier the claim gives an environment, in tenths.
ClaimedMultiplier(environment) ==
    LET e == toLowerCase(environment)
    IN  IF e \in {S_prod, S_production} THEN 10
        ELSE IF e = S_staging THEN 7
        ELSE IF e \in {S_dev, S_development} THEN 3
        ELSE IF e = S_test THEN 2
        ELSE 5

\* C14: the returned score is round(clamp(m * sum of score * weight over the
\* five factors, 0, 100)), m being 1.0 for prod and production, 0.7 for
\* staging, 0.3 for dev and development, 0.2 for test and 0.5 for every other
\* environment, looked up in lower case.  The sum and the product are those
\* of double arithmetic.
C14_ScoreIsRoundedClampedProduct ==
    \A s \in Scored :
        LET factors == s.score.factors
            sum ==
                Plus(Plus(Plus(Plus(WeightedScore(factors[1]), WeightedScore(factors[2])),
                               WeightedScore(factors[3])),
                          WeightedScore(factors[4])),
                     WeightedScore(factors[5]))
            product == MultiplyByEnvironment(sum, ClaimedMultiplier(s.event.environment))
        IN  s.score.score = MathRound(MathMin(MathMax(product, 0), 100 * 1000), 1000)

\* C15: scoreMultipleEvents on an empty list returns, without an error, an
\* overallScore of score 0 and level low with no factors and exactly one
\* recommendation, an empty individualScores and an empty correlations.
C15_EmptyBatch ==
    BatchDone /\ Len(request.events) = 0 =>
        /\ response.status = "done"
        /\ response.result.overallScore.score = 0
        /\ response.result.overallScore.level = "low"
        /\ Len(response.result.overallScore.factors) = 0
        /\ Len(response.result.overallScore.recommendations) = 1
        /\ Len(response.result.individualScores) = 0
        /\ Len(response.result.correlations) = 0

\* scoreMultipleEvents has returned for an empty list.
C15_Witness ==
    /\ BatchDone
    /\ request.events = <<>>
    /\ response.result.overallScore.explanation =
          "No change events found in the specified time window."

\* The positions in the returned correlations of those with a description.
Emitted(description) ==
    {i \in DOMAIN response.result.correlations :
        response.result.correlations[i].description = description}

\* The events of the batch of a type, in batch order.
OfType(type) == SelectSeq(request.events, LAMBDA e : e.type = type)

\* C16: a deployment-chain correlation is emitted if and only if the batch
\* holds at least two events of type "deployment"; it covers exactly those
\* events in batch order and its riskIncrease is 10 times their number.
C16_DeploymentChain ==
    BatchDone =>
        LET chain == Emitted("Multiple deployments in sequence can compound issues")
            deployments == OfType(S_deployment)
        IN  /\ Cardinality(chain) = IF Len(deployments) >= 2 THEN 1 ELSE 0
            /\ \A i \in chain :
                 /\ response.result.correlations[i].events = deployments
                 /\ response.result.correlations[i].riskIncrease = 10 * Len(deployments)

\* A batch with exactly two events of type "deployment" and one of type
\* "Deployment" has a chain of the two, with riskIncrease 20.
C16_Witness ==
    /\ BatchDone
    /\ Len(OfType(S_deployment)) = 2
    /\ Len(OfType(S_Deployment)) = 1
    /\ \E i \in Emitted("Multiple deployments in sequence can compound issues") :
         /\ Len(response.result.correlations[i].events) = 2
         /\ response.result.correlations[i].riskIncrease = 20

\* C17: a migration+deployment correlation is emitted if and only if the
\* batch holds at least one migration and at least one deployment, whatever
\* else is emitted; it covers all migrations followed by all deployments and
\* its riskIncrease is 25 however many there are.
C17_MigrationWithDeployment ==
    BatchDone =>
        LET combination ==
                Emitted("Database migrations combined with deployments are high-risk")
            migrations == OfType(S_migration)
            deployments == OfType(S_deployment)
        IN  /\ Cardinality(combination) =
                 IF Len(migrations) >= 1 /\ Len(deployments) >= 1 THEN 1 ELSE 0
            /\ \A i \in combination :
                 /\ response.result.correlations[i].events = migrations \o deployments
                 /\ response.result.correlations[i].riskIncrease = 25

\* A batch with two migrations and two deployments on three services has all
\* three correlations, the combination with riskIncrease 25 and the events
\* the chain covers too.
C17_Witness ==
    /\ BatchDone
    /\ Len(OfType(S_migration)) = 2
    /\ Len(OfType(S_deployment)) = 2
    /\ Len(response.result.correlations) = 3
    /\ \E i \in Emitted("Database migrations combined with deployments are high-risk") :
         /\ Len(response.result.correlations[i].events) = 4
         /\ response.result.correlations[i].riskIncrease = 25

\* The distinct service names of the batch.
BatchServices == {request.events[i].service : i \in DOMAIN request.events}

Summary(correlations) ==
    {[description |-> correlations[i].description,
      events |-> {correlations[i].events[k] : k \in DOMAIN correlations[i].events},
      riskIncrease |-> correlations[i].riskIncrease] : i \in DOMAIN correlations}

Swap(seq, i, j) == [seq EXCEPT ![i] = seq[j], ![j] = seq[i]]

\* C19: findEventCorrelations returns the same correlations for a batch and
\* for a permutation of it: the same kinds, each with the same set of events
\* and the same riskIncrease.  Checked for every exchange of two events of
\* every batch (the batches hold every order of their events, and every
\* permutation is a sequence of exchanges), and for every permutation of the
\* batches of migrations and deployments.
C19_CorrelationsIgnoreOrder ==
    BatchDone =>
        LET events == request.events
            same(permuted) ==
                LET correlations == findEventCorrelations(permuted, request.context)
                IN  /\ Len(correlations) = Len(response.result.correlations)
                    /\ Summary(correlations) = Summary(response.result.correlations)
        IN  /\ \A i, j \in DOMAIN events : i < j => same(Swap(events, i, j))
            /\ events \in MigrationBatches =>
                 \A p \in Permutations(DOMAIN events) :
                    same([k \in DOMAIN events |-> events[p[k]]])

\* A batch has been scored in which a migration stands between two
\* deployments, and the chain of the two has been emitted.
C19_Witness ==
    /\ BatchDone
    /\ Len(request.events) = 3
    /\ request.events[1].type = S_deployment
    /\ request.events[2].type = S_migration
    /\ request.events[3].type = S_deployment
    /\ Emitted("Multiple deployments in sequence can compound issues") # {}

C21_WorkedExample ==
    \A s \in Scored :
        (/\ s.event.type = S_migration
         /\ s.event.service = S_database
         /\ s.event.environment = S_prod
         /\ DiffOf(s.event) = 3 * MsPerMinute
         /\ request.context.service = S_database
         /\ request.events = <<s.event>>
         /\ ~s.event.meta.affects_all_users
         /\ ~s.event.meta.breaking_change
         /\ ~s.event.meta.database_migration)
        => /\ [i \in 1..5 |-> s.score.factors[i].score] = <<100, 85, 90, 30, 20>>
           /\ s.score.score = 76
           /\ s.score.level = "high"

\* scoreChangeEvent has returned 76 for the event of the worked example.
C21_Witness ==
    /\ EventDone
    /\ request.event = ExampleEvent
    /\ request.context.service = S_database
    /\ response.result.score = 76

\* The entry of individualScores that belongs to the i-th event of the batch
\* as the caller passed it.
ScoreOfInput(i) == CHOOSE s \in Scored : s.event = request.events[i]

\* The per-event factors of the batch, flattened in the order of the input.
InputFactors ==
    Flatten([i \in 1..Len(request.events) |-> ScoreOfInput(i).score.factors])

\* seq in descending order of key, equal keys in their original order.
ClaimedOrder(seq, key) ==
    LET n == Len(seq)
        before(i) ==
            Cardinality({j \in 1..n : key[j] > key[i] \/ (key[j] = key[i] /\ j < i)})
    IN  [k \in 1..n |-> seq[CHOOSE i \in 1..n : before(i) = k - 1]]

\* C24: for a non-empty batch, overallScore.factors is the first five of the
\* per-event factors (flattened in input order) sorted by score * weight
\* descending, ties in their original order; its length is
\* min(5, 5 * number of events).  Where a weighted score is NaN the formula
\* only asks that the numbers among the factors returned descend.
C24_TopFactors ==
    (BatchDone /\ Len(request.events) > 0) =>
        \E all \in {InputFactors} :
        \E key \in {[i \in 1..Len(all) |-> WeightedScore(all[i])]} :
            LET top == response.result.overallScore.factors
            IN  /\ Len(top) = IF Len(all) < 5 THEN Len(all) ELSE 5
                /\ IF \A i \in 1..Len(all) : key[i] # NaN
                   THEN top = Slice(ClaimedOrder(all, key), 5)
                   ELSE \A k, l \in 1..Len(top) :
                            (/\ k < l
                             /\ WeightedScore(top[k]) # NaN
                             /\ WeightedScore(top[l]) # NaN)
                            => WeightedScore(top[k]) >= WeightedScore(top[l])

\* What C24 says holds on every batch whose weighted scores are all numbers.
C24_NumericTopFactors ==
    (/\ BatchDone
     /\ Len(request.events) > 0
     /\ \A s \in Scored : \A i \in 1..5 : s.score.factors[i].score # NaN)
    => C24_TopFactors

\* C25: the aggregate recommendations are the urgency messages of the overall
\* level (two for critical, two others for high, none otherwise), then one
\* numbered "Investigate" entry for each of the up to three highest-scoring
\* events, by score descending with ties in input order, then one "analyze
\* correlations" entry iff a correlation was found.  Where a score is NaN the
\* formula only asks that the numbers among the scores quoted descend.
C25_OverallRecommendations ==
    (BatchDone /\ Len(request.events) > 0) =>
        \E inputScores \in {[i \in 1..Len(request.events) |-> ScoreOfInput(i)]} :
        \E key \in {[i \in 1..Len(inputScores) |-> inputScores[i].score.score]} :
            LET recs == response.result.overallScore.recommendations
                level == response.result.overallScore.level
                urgency ==
                    IF level = "critical" THEN
                        <<Recommendation("URGENT: Multiple high-risk changes detected - coordinate immediate investigation", <<>>),
                          Recommendation("Consider emergency rollback procedures", <<>>)>>
                    ELSE IF level = "high" THEN
                        <<Recommendation("Prioritize investigation of identified high-risk changes", <<>>),
                          Recommendation("Prepare rollback plans for recent changes", <<>>)>>
                    ELSE <<>>
                count == IF Len(inputScores) < 3 THEN Len(inputScores) ELSE 3
                analyze ==
                    IF Len(response.result.correlations) > 0 THEN
                        <<Recommendation("Analyze change correlations and dependencies", <<>>)>>
                    ELSE <<>>
                claimed == Slice(ClaimedOrder(inputScores, key), 3)
                quoted(k) == recs[Len(urgency) + k].args[4]
            IN  /\ Len(recs) = Len(urgency) + count + Len(analyze)
                /\ SubSeq(recs, 1, Len(urgency)) = urgency
                /\ SubSeq(recs, Len(urgency) + count + 1, Len(recs)) = analyze
                /\ IF \A i \in 1..Len(inputScores) : key[i] # NaN
                   THEN SubSeq(recs, Len(urgency) + 1, Len(urgency) + count) =
                            [index \in 1..count |->
                                Recommendation("Investigate",
                                               <<index, claimed[index].event.type,
                                                 claimed[index].event.service,
                                                 claimed[index].score.score>>)]
                   ELSE \A k, l \in 1..count :
                            (k < l /\ quoted(k) # NaN /\ quoted(l) # NaN)
                            => quoted(k) >= quoted(l)

\* What C25 says holds on every batch whose scores are all numbers.
C25_NumericRecommendations ==
    (/\ BatchDone
     /\ Len(request.events) > 0
     /\ \A s \in Scored : s.score.score # NaN)
    => C25_OverallRecommendations

\* The indices of the factors whose weighted score is a number no other
\* weighted score exceeds.
Maximal(factors) ==
    {k \in DOMAIN factors :
        /\ WeightedScore(factors[k]) # NaN
        /\ \A j \in DOMAIN factors :
              WeightedScore(factors[j]) # NaN
              => WeightedScore(factors[j]) <= WeightedScore(factors[k])}

\* C26: the factor an event's explanation names as primary risk factor is
\* the factor with the largest score * weight among the five (among those
\* whose score is a number), the earliest of them in the order Timing,
\* Event Type, Service Criticality, Change Frequency, Blast Radius when
\* several share the maximum; the level and the score the explanation quotes
\* are the level and the score of the same ScoreResult.
C26_PrimaryFactor ==
    \A s \in Scored :
        LET factors == s.score.factors
            first == CHOOSE k \in Maximal(factors) : \A j \in Maximal(factors) : k <= j
        IN  /\ s.score.explanation.topFactor = factors[first].name
            /\ s.score.explanation.topFactorDescription = factors[first].description
            /\ s.score.explanation.level = s.score.level
            /\ s.score.explanation.score = s.score.score

\* An event whose Timing Proximity and Event Type Risk share the largest
\* weighted score (50 * 0.30 = 60 * 0.25) has Timing Proximity named.
C26_Witness ==
    \E s \in Scored :
        /\ Maximal(s.score.factors) = {1, 2}
        /\ s.score.explanation.topFactor = "Timing Proximity"

\* The recommendations C27 gives a ScoreResult of an event.
ClaimedRecommendations(s) ==
    (IF s.score.level \in {"critical", "high"} THEN
        <<Recommendation("Immediately investigate this change as a primary suspect", <<>>),
          Recommendation("Check if rollback is possible and safe", <<>>),
          Recommendation("Review change approval and testing processes", <<>>)>>
     ELSE <<>>)
    \o
    (IF Geq(s.score.factors[1].score, 80) THEN
        <<Recommendation("Verify exact timing correlation with incident onset", <<>>)>>
     ELSE <<>>)
    \o
    (IF s.event.type = S_migration THEN
        <<Recommendation("Check database performance and integrity", <<>>),
          Recommendation("Review migration logs for errors", <<>>)>>
     ELSE <<>>)
    \o
    (IF Geq(s.score.factors[4].score, 60) THEN
        <<Recommendation("Implement change freezes during high-frequency periods", <<>>)>>
     ELSE <<>>)
    \o
    (IF s.event.meta.author # "" THEN
        <<Recommendation("Contact change author: ", <<s.event.meta.author>>)>>
     ELSE <<>>)

\* C27: an event's recommendations are, in order, the three general items
\* iff its level is critical or high, the timing item iff its Timing
\* Proximity score is >= 80, the two database checks iff its type is
\* "migration", the change-freeze item iff its Change Frequency score is
\* >= 60, and the contact-author item iff meta.author is present; a low or
\* medium event with none of these triggers gets the empty list.
C27_EventRecommendations ==
    \A s \in Scored :
        /\ s.score.recommendations = ClaimedRecommendations(s)
        /\ (/\ s.score.level \in {"low", "medium"}
            /\ ~Geq(s.score.factors[1].score, 80)
            /\ s.event.type # S_migration
            /\ ~Geq(s.score.factors[4].score, 60)
            /\ s.event.meta.author = "")
           => s.score.recommendations = <<>>

\* A batch with a medium migration by a named author, which gets the two
\* database checks and the contact-author item and nothing else, and with an
\* event that gets no recommendation.
C27_Witness ==
    /\ BatchDone
    /\ \E s \in Scored :
         /\ s.score.level = "medium"
         /\ s.event.type = S_migration
         /\ s.event.meta.author = "bob"
         /\ Len(s.score.recommendations) = 3
         /\ s.score.recommendations[3] = Recommendation("Contact change author: ", <<"bob">>)
    /\ \E s \in Scored : s.score.recommendations = <<>>

\* An event with all of the triggers: a high or critical migration close to
\* the incident.
C27_AllTriggers ==
    \E s \in Scored :
        /\ s.score.level \in {"critical", "high"}
        /\ s.event.type = S_migration
        /\ Len(s.score.recommendations) >= 6

\* The type differs from exact in letter case only.
CaseVariant(type, exact) == type # exact /\ toLowerCase(type) = exact

\* C29: an event whose type differs from "deployment" or "migration" in
\* letter case only has the Event Type Risk score of a deployment (70) or a
\* migration (85), is in no deployment-chain and no migration+deployment
\* correlation, which are emitted for the events typed exactly so alone, and
\* gets no migration-specific recommendation.
C29_CaseSensitivity ==
    /\ \A s \in Scored :
         /\ CaseVariant(s.event.type, S_deployment) => s.score.factors[2].score = 70
         /\ CaseVariant(s.event.type, S_migration) =>
              /\ s.score.factors[2].score = 85
              /\ \A k \in DOMAIN s.score.recommendations :
                   s.score.recommendations[k].text \notin
                      {"Check database performance and integrity",
                       "Review migration logs for errors"}
    /\ BatchDone =>
         /\ \A i \in Emitted("Multiple deployments in sequence can compound issues")
                  \cup Emitted("Database migrations combined with deployments are high-risk") :
              \A k \in DOMAIN response.result.correlations[i].events :
                 LET type == response.result.correlations[i].events[k].type
                 IN  ~CaseVariant(type, S_deployment) /\ ~CaseVariant(type, S_migration)
         /\ Len(OfType(S_deployment)) < 2 =>
              Emitted("Multiple deployments in sequence can compound issues") = {}
         /\ (Len(OfType(S_deployment)) = 0 \/ Len(OfType(S_migration)) = 0) =>
              Emitted("Database migrations combined with deployments are high-risk") = {}

\* A batch with a "Migration" and a "deployment" and no "migration": the
\* "Migration" scores 85 on Event Type Risk and no migration+deployment
\* correlation is emitted.
C29_Witness ==
    /\ BatchDone
    /\ Len(OfType(S_Migration)) = 1
    /\ Len(OfType(S_deployment)) = 1
    /\ Len(OfType(S_migration)) = 0
    /\ \E s \in Scored : s.event.type = S_Migration /\ s.score.factors[2].score = 85
    /\ Emitted("Database migrations combined with deployments are high-risk") = {}

\* The first event of a list moved behind the others.
Rotate(seq) == IF seq = <<>> THEN seq ELSE Tail(seq) \o <<Head(seq)>>

\* C28: scoring a batch does not depend on the order of its events: passed
\* in another order, every event gets the same score, level and five factor
\* scores, and overallScore.score and overallScore.level are the same.
\* Checked for the exchange of the first two events and for the rotation of
\* every batch (every permutation is a sequence of these two, and the batches
\* hold every order of their events), and for every permutation of the
\* batches of MixedBatches.
C28_OrderIndependent ==
    BatchDone =>
        LET events == request.events
            same(permuted) ==
                \E scores \in {mapIndividualScores(permuted, request.context)} :
                    /\ \A k \in DOMAIN permuted :
                         \E s \in Scored :
                            /\ s.event = permuted[k]
                            /\ s.score.score = scores[k].score.score
                            /\ s.score.level = scores[k].score.level
                            /\ \A f \in 1..5 :
                                 s.score.factors[f].score = scores[k].score.factors[f].score
                    /\ \E overall \in
                          {overallFinalScore(
                              scores, findEventCorrelations(permuted, request.context))} :
                         /\ Len(events) > 0 =>
                              /\ response.result.overallScore.score =
                                    MathRound(overall, Len(events))
                              /\ response.result.overallScore.level =
                                    getScoreLevel(overall, Len(events))
        IN  /\ Len(events) >= 2 => same(Swap(events, 1, 2))
            /\ same(Rotate(events))
            /\ events \in MixedBatches =>
                 \A p \in Permutations(DOMAIN events) :
                    same([k \in DOMAIN events |-> events[p[k]]])

\* A batch of three events has been scored of which the first two are of one
\* service, so that each counts the other in its Change Frequency (20), with
\* a correlation that raises the overall score.
C28_Witness ==
    /\ BatchDone
    /\ Len(request.events) >= 3
    /\ request.events[1].service = request.events[2].service
    /\ \E s \in Scored : s.event = request.events[1] /\ s.score.factors[4].score = 20
    /\ Len(response.result.correlations) > 0

(***************************************************************************)
(* The request layer                                                       *)
(***************************************************************************)
MethodologyDone == request.op = "explainScoring" /\ response # Pending

\* A change of a service and a type, a number of minutes before the incident.
Probe(id, minutes, service, type) ==
    EventAt(id, minutes * MsPerMinute, service, type, NoFlags)

ProbeContext == [incidentAt |-> IncidentAt, service |-> <<>>]

\* n changes at one instant, each to a service of its own.
ProbeServices == <<S_orders, S_checkout, S_search, S_web>>

AcrossServices(n, type) ==
    [k \in 1..n |-> Probe(700 + k, 20, ProbeServices[k], type)]

\* n changes to one service in the 24 hours before the incident.
WithinDay(n) == [k \in 1..n |-> Probe(720 + k, 60 * k, S_orders, S_scaling)]

\* The services the rows of the payload on Service Criticality speak of.
ServiceRows ==
    {[key |-> "Same as incident service", service |-> S_orders, incident |-> S_orders],
     [key |-> "Payment/Billing services", service |-> S_payment, incident |-> <<>>],
     [key |-> "Payment/Billing services", service |-> S_billing, incident |-> <<>>],
     [key |-> "Authentication services", service |-> S_auth, incident |-> <<>>],
     [key |-> "Authentication services", service |-> S_login, incident |-> <<>>],
     [key |-> "Database services", service |-> S_database, incident |-> <<>>],
     [key |-> "Database services", service |-> S_db, incident |-> <<>>],
     [key |-> "API/Gateway services", service |-> S_api, incident |-> <<>>],
     [key |-> "API/Gateway services", service |-> S_gateway, incident |-> <<>>],
     [key |-> "Web/Frontend services", service |-> S_web, incident |-> <<>>],
     [key |-> "Web/Frontend services", service |-> S_frontend, incident |-> <<>>],
     [key |-> "Other services", service |-> S_orders, incident |-> <<>>]}

\* The figures of the payload m on the five factors, the environments and
\* the levels are those the engine applies.
FiguresInSync(m) ==
    LET probe == scoreChangeEvent(ExampleEvent, ProbeContext, <<ExampleEvent>>).factors
    IN  /\ Len(m.factors) = 5
        /\ \A i \in 1..5 :
              /\ m.factors[i].name = probe[i].name
              /\ m.factors[i].weight = probe[i].weight
        \* Timing Proximity: a number of minutes gets the points of a bucket
        \* it lies in (a boundary those of one of the two it ends).
        /\ \A row \in m.factors[1].scoring :
              \A minutes \in {row.from, row.from + 1, row.to - 1, row.to} :
                 calculateTimingProximity(
                     Probe(740, minutes, S_orders, S_scaling), ProbeContext).score
                    \in {r.points : r \in {r \in m.factors[1].scoring :
                                              r.from <= minutes /\ minutes <= r.to}}
        /\ \A row \in m.factors[2].scoring :
              calculateEventTypeRisk(Probe(741, 20, S_orders, row.key)).score = row.points
        /\ \A row \in m.factors[3].scoring :
              \A sample \in {s \in ServiceRows : s.key = row.key} :
                 calculateServiceCriticality(
                     Probe(742, 20, sample.service, S_scaling),
                     [incidentAt |-> IncidentAt, service |-> sample.incident]).score
                    = row.points
        /\ \A key \in {s.key : s \in ServiceRows} :
              \E row \in m.factors[3].scoring : row.key = key
        /\ \A row \in m.factors[4].scoring :
              \A n \in row.from..(IF row.to > 8 THEN 8 ELSE row.to) :
                 calculateChangeFrequency(
                     Probe(721, 60, S_orders, S_scaling), WithinDay(n), ProbeContext).score
                    = row.points
        /\ \A row \in m.factors[5].scoring.services :
              \A n \in row.from..(IF row.to > 4 THEN 4 ELSE row.to) :
                 \A meta \in [affects_all_users : BOOLEAN, breaking_change : BOOLEAN,
                              database_migration : BOOLEAN, author : {""}] :
                    LET batch == [AcrossServices(n, S_scaling) EXCEPT ![1].meta = meta]
                        bonus ==
                            (IF meta.breaking_change
                                THEN m.factors[5].scoring.breaking_change ELSE 0)
                            + (IF meta.affects_all_users
                                THEN m.factors[5].scoring.affects_all_users ELSE 0)
                            + (IF meta.database_migration
                                THEN m.factors[5].scoring.database_migration ELSE 0)
                    IN  calculateBlastRadius(batch[1], batch).score
                            = MathMin(row.points + bonus, 100)
        /\ \A row \in m.environment_multipliers :
              LookupOr(ENVIRONMENT_MULTIPLIERS, row.key, 5) = row.multiplier
        /\ \A row \in m.risk_levels :
              \A points \in row.from..row.to : getScoreLevel(points, 1) = row.level
        /\ UNION {row.from..row.to : row \in m.risk_levels} = 0..100

\* The risk increase of the n-th correlation of a batch, of a description.
RiskIncrease(batch, description) ==
    LET correlations == findEventCorrelations(batch, ProbeContext)
    IN  {correlations[i].riskIncrease :
            i \in {i \in DOMAIN correlations : correlations[i].description = description}}

\* The increases the payload m states for a chain of deployments and for a
\* migration with a deployment are those the engine applies.
DeploymentIncreasesInSync(m) ==
    /\ \A n \in 2..4 :
          RiskIncrease(AcrossServices(n, S_deployment),
                       "Multiple deployments in sequence can compound issues")
             = {n * m.correlations.deployments_each}
    /\ RiskIncrease(<<Probe(750, 20, S_orders, S_migration),
                      Probe(751, 30, S_orders, S_deployment)>>,
                    "Database migrations combined with deployments are high-risk")
          = {m.correlations.migration_with_deployment}

\* C22: every factor weight, bucket score and boundary, environment
\* multiplier, level threshold and correlation risk increase that the
\* payload of explainScoring states is the value the engine applies; for
\* changes across n >= 3 services the payload's "+5 points per additional
\* service" is 5 for each service beyond the first.
C22_MethodologyInSync ==
    MethodologyDone =>
        LET m == response.data.scoring_methodology
        IN  /\ FiguresInSync(m)
            /\ DeploymentIncreasesInSync(m)
            /\ \A n \in 3..4 :
                  RiskIncrease(AcrossServices(n, S_scaling),
                               "Changes across multiple services increase system complexity")
                     = {(n - 1) * m.correlations.cross_service_per_additional_service}

\* Every figure of the payload but that of the cross-service correlation is
\* the one the engine applies.
C22_OtherFiguresInSync ==
    MethodologyDone =>
        /\ FiguresInSync(response.data.scoring_methodology)
        /\ DeploymentIncreasesInSync(response.data.scoring_methodology)

\* The engine gives changes across n services 5 points for each of the n,
\* which no count of "additional" services is: 15 for three services.
C22_CrossServiceApplied ==
    MethodologyDone =>
        \A n \in 3..4 :
            RiskIncrease(AcrossServices(n, S_scaling),
                         "Changes across multiple services increase system complexity")
                = {n * response.data.scoring_methodology.correlations
                            .cross_service_per_additional_service}

IncidentDone == request.op = "scoreIncident" /\ response # Pending

EventIdDone == request.op = "scoreEvent" /\ response # Pending

\* The strings of the requests that write an instant.
WritesInstant(s) == s = S_incidentAt

\* Digits followed by m, h or d.
WritesWindow(s) ==
    /\ Len(s) >= 2
    /\ \A i \in 1..(Len(s) - 1) : IsDigit(s[i])
    /\ s[Len(s)] \in {"m", "h", "d"}

\* Groups of 8, 4, 4, 4 and 12 hexadecimal digits, hyphens between them.
WritesUuid(s) ==
    /\ Len(s) = 36
    /\ \A i \in 1..36 : IF i \in {9, 14, 19, 24} THEN s[i] = "-" ELSE s[i] \in HexDigits

\* The calls of the response to the engine.
EngineCalls ==
    {response.calls[k] : k \in {k \in DOMAIN response.calls :
        response.calls[k].fn \in {"scoreMultipleEvents", "scoreChangeEvent"}}}

C23_EngineReached ==
    /\ (IncidentDone \/ EventIdDone)
    /\ response.code = 200
    /\ EngineCalls # {}

\* C30: the batch scoreEvent hands to the engine holds only events of the
\* scored event's own service that occurred within
\* [incidentAt - 24h, incidentAt]; the Blast Radius set of affected services
\* has size 1 (score 20 before the bonuses of meta); an event that occurred
\* after the incident or more than 24 hours before it is not in its own
\* batch.
C30_OwnServiceBatch ==
    (EventIdDone /\ response.code = 200) =>
        \A call \in EngineCalls :
            /\ \A k \in DOMAIN call.events :
                  /\ call.events[k].service = call.event.service
                  /\ call.events[k].occurred_at >= call.context.incidentAt - 24 * 60 * MsPerMinute
                  /\ call.events[k].occurred_at <= call.context.incidentAt
            /\ response.data.risk_assessment.factors[5].description =
                  "Single service affected"
            /\ response.data.risk_assessment.factors[5].score = 20
            /\ (\/ call.event.occurred_at > call.context.incidentAt
                \/ call.event.occurred_at < call.context.incidentAt - 24 * 60 * MsPerMinute)
               => \A k \in DOMAIN call.events : call.events[k] # call.event

\* What C30 says holds for every event whose service is not the empty string.
C30_NamedService ==
    (EventIdDone /\ response.code = 200 /\ response.data.event.service # <<>>)
    => C30_OwnServiceBatch

====
